---- MODULE Spec2Model ----
(***************************************************************************)
(* Canvas course automation (adjunct-oss): the week resolver and the       *)
(* announcement date calculator of course_utils.py and of its older copy   *)
(* utils.py, over a model of the datetime values they compute with.        *)
(*                                                                         *)
(* A str is a sequence of one-character strings.  A datetime is a record   *)
(* [year, month, day, second] (second = seconds since midnight).  A call   *)
(* of a function is one behaviour: the inputs are chosen when the function *)
(* is entered, the locals of its body are the state variables.             *)
(***************************************************************************)
EXTENDS Integers, Sequences, FiniteSets

(***************************************************************************)
(* Bounds of the model.                                                    *)
(***************************************************************************)
\* course start dates: StartSpan consecutive days, and the spec's examples
StartSpan == 7
\* "today" ranges from DaysBefore days before an anchor day to DaysAfter
\* days after the StartSpan days that begin with it
DaysBefore == 9
DaysAfter == 66
\* record weeks range over MIN_WEEK - WeekBelow .. MAX_WEEK + WeekAbove
WeekBelow == 2
WeekAbove == 1
\* announcement lists hold at most MaxRecords records
MaxRecords == 2
\* a pool holds at most MaxPool examples, k is at most MaxK
MaxPool == 3
MaxK == 4
\* a file holds at most MaxCourses courses
MaxCourses == 2
\* a page shows at most MaxAuthors authors, a call of the discussion loop is
\* followed for at most MaxPasses passes
MaxAuthors == 2
MaxPasses == 2
\* a file holds at most MaxNotices announcements
MaxNotices == 2

(***************************************************************************)
(* Program constants (config.py) and the outcomes of a call.               *)
(***************************************************************************)
MIN_WEEK == 1
MAX_WEEK == 8
DATE_FORMAT == "%Y-%m-%d"
ANNOUNCEMENT_DATE_FORMAT == "%B %d %Y"

None == "None"
NoError == "none"
ValueError == "ValueError"
OverflowError == "OverflowError"

(***************************************************************************)
(* The proleptic Gregorian calendar of Python's datetime module, which the *)
(* source uses through strptime, weekday, timedelta arithmetic, strftime.  *)
(***************************************************************************)
is_leap(year) == year % 4 = 0 /\ (year % 100 # 0 \/ year % 400 = 0)

days_before_year(year) ==
    LET y == year - 1
    IN  y * 365 + (y \div 4) - (y \div 100) + (y \div 400)

DAYS_IN_MONTH == <<31, 28, 31, 30, 31, 30, 31, 31, 30, 31, 30, 31>>

DAYS_BEFORE_MONTH == <<0, 31, 59, 90, 120, 151, 181, 212, 243, 273, 304, 334>>

days_in_month(year, month) ==
    IF month = 2 /\ is_leap(year) THEN 29 ELSE DAYS_IN_MONTH[month]

days_before_month(year, month) ==
    DAYS_BEFORE_MONTH[month] + (IF month > 2 /\ is_leap(year) THEN 1 ELSE 0)

\* date.toordinal(): 0001-01-01 is day 1
toordinal(dt) ==
    days_before_year(dt.year) + days_before_month(dt.year, dt.month) + dt.day

\* the largest ordinal, date(9999, 12, 31).toordinal()
MAXORDINAL == days_before_year(10000)

\* date.fromordinal(n) for 1 <= n <= MAXORDINAL, at the time of day `second`:
\* the 400-, 100-, 4- and 1-year cycles of the calendar
fromordinal(n, second) ==
    LET n0   == n - 1
        n400 == n0 \div 146097
        r400 == n0 % 146097
        n100 == r400 \div 36524
        r100 == r400 % 36524
        n4   == r100 \div 1461
        r4   == r100 % 1461
        n1   == r4 \div 365
        r1   == r4 % 365
        year == n400 * 400 + 1 + n100 * 100 + n4 * 4 + n1
        leapyear == n1 = 3 /\ (n4 # 24 \/ n100 = 3)
        m0   == (r1 + 50) \div 32
        p0   == DAYS_BEFORE_MONTH[m0] + (IF m0 > 2 /\ leapyear THEN 1 ELSE 0)
        month == IF p0 > r1 THEN m0 - 1 ELSE m0
        preceding ==
            IF p0 > r1
            THEN p0 - (DAYS_IN_MONTH[month]
                       + (IF month = 2 /\ leapyear THEN 1 ELSE 0))
            ELSE p0
    IN  IF n1 = 4 \/ n100 = 4
        THEN [year |-> year - 1, month |-> 12, day |-> 31, second |-> second]
        ELSE [year |-> year, month |-> month,
              day |-> r1 - preceding + 1, second |-> second]

\* datetime.weekday(): Monday = 0 ... Sunday = 6
weekday(dt) == (toordinal(dt) + 6) % 7

NoDate == [year |-> 0, month |-> 0, day |-> 0, second |-> 0]

\* datetime + timedelta(days = n): OverflowError outside 0001..9999
plus_days(dt, n) ==
    LET o == toordinal(dt) + n
    IN  IF 0 < o /\ o <= MAXORDINAL
        THEN [exc |-> NoError, value |-> fromordinal(o, dt.second)]
        ELSE [exc |-> OverflowError, value |-> NoDate]

\* (a - b).days for two datetimes: a timedelta is normalised so that
\* 0 <= seconds < 86400, and .days is its whole-day part (floor)
timedelta_days(a, b) ==
    (toordinal(a) - toordinal(b)) + ((a.second - b.second) \div 86400)

(***************************************************************************)
(* datetime.strptime(data_string, '%Y-%m-%d'): the format is compiled to   *)
(* the regular expression                                                  *)
(*   (\d\d\d\d)-(1[0-2]|0[1-9]|[1-9])-(3[0-1]|[1-2]\d|0[1-9]|[1-9]| [1-9])  *)
(* matched at the start of the string (alternatives in order); text left   *)
(* after the match and a date that is not in the calendar are ValueErrors. *)
(***************************************************************************)
DigitValue ==
    [c \in {"0", "1", "2", "3", "4", "5", "6", "7", "8", "9"} |->
        CASE c = "0" -> 0 [] c = "1" -> 1 [] c = "2" -> 2 [] c = "3" -> 3
          [] c = "4" -> 4 [] c = "5" -> 5 [] c = "6" -> 6 [] c = "7" -> 7
          [] c = "8" -> 8 [] c = "9" -> 9]

DigitChar == <<"0", "1", "2", "3", "4", "5", "6", "7", "8", "9">>

\* the character at position p (1-based), "" past the end
CharAt(s, p) == IF p >= 1 /\ p <= Len(s) THEN s[p] ELSE ""

IsDigit(c) == c \in DOMAIN DigitValue

IsDigit19(c) == IsDigit(c) /\ c # "0"

\* the length matched by %Y at p, 0 if none
match_Y(s, p) ==
    IF \A k \in 0..3 : IsDigit(CharAt(s, p + k)) THEN 4 ELSE 0

\* the lengths %m can match at p, in the order the regex tries them
match_m(s, p) ==
    LET a == CharAt(s, p)
        b == CharAt(s, p + 1)
    IN  (IF a = "1" /\ b \in {"0", "1", "2"} THEN <<2>> ELSE << >>)
        \o (IF a = "0" /\ IsDigit19(b) THEN <<2>> ELSE << >>)
        \o (IF IsDigit19(a) THEN <<1>> ELSE << >>)

\* the lengths %d can match at p, in the order the regex tries them
match_d(s, p) ==
    LET a == CharAt(s, p)
        b == CharAt(s, p + 1)
    IN  (IF a = "3" /\ b \in {"0", "1"} THEN <<2>> ELSE << >>)
        \o (IF a \in {"1", "2"} /\ IsDigit(b) THEN <<2>> ELSE << >>)
        \o (IF a = "0" /\ IsDigit19(b) THEN <<2>> ELSE << >>)
        \o (IF IsDigit19(a) THEN <<1>> ELSE << >>)
        \o (IF a = " " /\ IsDigit19(b) THEN <<2>> ELSE << >>)

\* int(text) of the characters p .. p+len-1 (int() strips blanks)
int_of(s, p, len) ==
    IF len = 1 THEN DigitValue[s[p]]
    ELSE IF s[p] = " " THEN DigitValue[s[p + 1]]
    ELSE 10 * DigitValue[s[p]] + DigitValue[s[p + 1]]

strptime_Ymd(data_string) ==
    LET s     == data_string
        ylen  == match_Y(s, 1)
        \* the month alternatives after which "-" and a day match
        mlens == SelectSeq(match_m(s, 6),
                     LAMBDA l : CharAt(s, 6 + l) = "-"
                                /\ match_d(s, 7 + l) # << >>)
        mlen  == Head(mlens)
        dpos  == 7 + mlen
        dlen  == Head(match_d(s, dpos))
        year  == 1000 * DigitValue[s[1]] + 100 * DigitValue[s[2]]
                 + 10 * DigitValue[s[3]] + DigitValue[s[4]]
        month == int_of(s, 6, mlen)
        day   == int_of(s, dpos, dlen)
        fail  == [exc |-> ValueError, value |-> NoDate]
    IN  IF ylen = 0 \/ CharAt(s, 5) # "-" \/ mlens = << >>
        THEN fail                       \* does not match format
        ELSE IF dpos + dlen - 1 # Len(s)
        THEN fail                       \* unconverted data remains
        ELSE IF year < 1 \/ day > days_in_month(year, month)
        THEN fail                       \* year / day is out of range
        ELSE [exc |-> NoError,
              value |-> [year |-> year, month |-> month, day |-> day,
                         second |-> 0]]

\* datetime.strptime(data_string, format) for the one format the source uses;
\* a string never matches another format's expression here
strptime(data_string, format) ==
    IF format = "%Y-%m-%d"
    THEN strptime_Ymd(data_string)
    ELSE [exc |-> ValueError, value |-> NoDate]

(***************************************************************************)
(* datetime.strftime: %Y-%m-%d (used by the tests to build a start date)   *)
(* and %B %d %Y, in the C locale.  %d and %m are two digits, %Y and %B are *)
(* as long as the year and the month name are.                             *)
(***************************************************************************)
MONTH_NAME ==
    << <<"J","a","n","u","a","r","y">>,
       <<"F","e","b","r","u","a","r","y">>,
       <<"M","a","r","c","h">>,
       <<"A","p","r","i","l">>,
       <<"M","a","y">>,
       <<"J","u","n","e">>,
       <<"J","u","l","y">>,
       <<"A","u","g","u","s","t">>,
       <<"S","e","p","t","e","m","b","e","r">>,
       <<"O","c","t","o","b","e","r">>,
       <<"N","o","v","e","m","b","e","r">>,
       <<"D","e","c","e","m","b","e","r">> >>

\* "%02d" of 0 <= n <= 99
two_digits(n) == <<DigitChar[(n \div 10) + 1], DigitChar[(n % 10) + 1]>>

\* "%d" of n >= 0: as many digits as the number has
RECURSIVE decimal(_)
decimal(n) ==
    IF n < 10 THEN <<DigitChar[n + 1]>>
    ELSE Append(decimal(n \div 10), DigitChar[(n % 10) + 1])

strftime_Ymd(dt) ==
    decimal(dt.year) \o <<"-">> \o two_digits(dt.month) \o <<"-">>
        \o two_digits(dt.day)

strftime_BdY(dt) ==
    MONTH_NAME[dt.month] \o <<" ">> \o two_digits(dt.day) \o <<" ">>
        \o decimal(dt.year)

\* datetime.strftime(format)
strftime(dt, format) ==
    CASE format = "%Y-%m-%d" -> strftime_Ymd(dt)
      [] format = "%B %d %Y" -> strftime_BdY(dt)

(***************************************************************************)
(* course_utils.py: the week resolver.  Parameters: d start date, c        *)
(* current date (datetime.now()), m and n Mondays, e weeks elapsed, w week.*)
(***************************************************************************)
\* a string that does not parse replaced by a default date, not an error
parse_start_date_with_fallback(s) ==
    IF strptime(s, DATE_FORMAT).exc # NoError
    THEN [exc |-> NoError,
          value |-> [year |-> 1970, month |-> 1, day |-> 1, second |-> 0]]
    ELSE strptime(s, DATE_FORMAT)

\* datetime.strptime(course_start_date, course_config.DATE_FORMAT)
parse_start_date(s) == strptime(s, DATE_FORMAT)

Min(a, b) == IF a < b THEN a ELSE b

Max(a, b) == IF a > b THEN a ELSE b

\* the start date used as it is, not moved back to its Monday
start_monday_unaligned(d) == d

start_monday(d) == plus_days(d, -weekday(d)).value

\* a Sunday counted to the week that starts the day after it
current_week_monday_sunday_ahead(c) ==
    IF weekday(c) = 6
    THEN plus_days(c, 1).value
    ELSE plus_days(c, -weekday(c)).value

\* a Sunday moved back a whole week
current_week_monday_sunday_week_back(c) ==
    IF weekday(c) = 6
    THEN plus_days(c, -7).value
    ELSE plus_days(c, -weekday(c)).value

current_week_monday(c) ==
    IF weekday(c) = 6
    THEN plus_days(c, -6).value
    ELSE plus_days(c, -weekday(c)).value

weeks_elapsed(m, n) == timedelta_days(m, n) \div 7

\* weeks counted from 2
week_number_off_by_one(e) == e + 2

week_number(e) == e + 1

\* the lower limit left out
clamp_week_no_floor(w) == Min(w, MAX_WEEK)

\* the upper limit left out
clamp_week_no_cap(w) == Max(MIN_WEEK, w)

clamp_week(w) == Max(MIN_WEEK, Min(w, MAX_WEEK))

calculate_current_week(d, c) ==
    clamp_week(week_number(
        weeks_elapsed(current_week_monday(c), start_monday(d))))

(***************************************************************************)
(* utils.py: the older copy of the week resolver, constants written out.   *)
(***************************************************************************)
utils_parse_start_date(s) == strptime(s, "%Y-%m-%d")

utils_calculate_current_week(d, c) ==
    LET m == plus_days(d, -weekday(d)).value
        n == IF weekday(c) = 6
             THEN plus_days(c, -6).value
             ELSE plus_days(c, -weekday(c)).value
        e == timedelta_days(n, m) \div 7
        w == e + 1
    IN  Max(1, Min(w, 8))

(***************************************************************************)
(* course_utils.py: one iteration of the announcement date loop, for the   *)
(* start date d and the record's week w; a is the raw announcement date.   *)
(***************************************************************************)
\* a week outside MIN_WEEK..MAX_WEEK refused
raw_announcement_date_range_checked(d, w) ==
    IF w < MIN_WEEK \/ w > MAX_WEEK
    THEN [exc |-> ValueError, value |-> NoDate]
    ELSE plus_days(d, 7 * (w - 1))

\* start_date + timedelta(weeks = week - 1)
raw_announcement_date(d, w) == plus_days(d, 7 * (w - 1))

\* Friday moved back with Monday to Thursday
days_until_monday_friday_back(a) ==
    LET u == (7 - weekday(a)) % 7
    IN  IF u = 0 THEN 0
        ELSE IF weekday(a) <= 4 THEN -weekday(a)
        ELSE 7 - weekday(a)

\* every day moved back to the Monday of its week
days_until_monday_always_back(a) == -weekday(a)

days_until_monday(a) ==
    LET u == (7 - weekday(a)) % 7
    IN  IF u = 0 THEN 0
        ELSE IF weekday(a) <= 3 THEN -weekday(a)
        ELSE 7 - weekday(a)

\* the day of the month without its leading zero
format_announcement_date_unpadded(a) ==
    MONTH_NAME[a.month] \o <<" ">> \o decimal(a.day) \o <<" ">>
        \o decimal(a.year)

format_announcement_date(a) == strftime(a, ANNOUNCEMENT_DATE_FORMAT)

\* [exc, announcement_date, formatted_date] of one iteration
announcement_step(d, w) ==
    LET raw == raw_announcement_date(d, w)
        rounded == plus_days(raw.value, days_until_monday(raw.value))
    IN  IF raw.exc # NoError
        THEN [exc |-> raw.exc, announcement_date |-> NoDate,
              formatted_date |-> << >>]
        ELSE IF rounded.exc # NoError
        THEN [exc |-> rounded.exc, announcement_date |-> NoDate,
              formatted_date |-> << >>]
        ELSE [exc |-> NoError, announcement_date |-> rounded.value,
              formatted_date |-> format_announcement_date(rounded.value)]

(***************************************************************************)
(* utils.py: the older copy of the loop body.                              *)
(***************************************************************************)
utils_announcement_step(d, w) ==
    LET raw == plus_days(d, 7 * (w - 1))
        a   == raw.value
        u   == (7 - weekday(a)) % 7
        v   == IF u = 0 THEN 0
               ELSE IF weekday(a) <= 3 THEN -weekday(a)
               ELSE 7 - weekday(a)
        rounded == plus_days(a, v)
    IN  IF raw.exc # NoError
        THEN [exc |-> raw.exc, announcement_date |-> NoDate,
              formatted_date |-> << >>]
        ELSE IF rounded.exc # NoError
        THEN [exc |-> rounded.exc, announcement_date |-> NoDate,
              formatted_date |-> << >>]
        ELSE [exc |-> NoError, announcement_date |-> rounded.value,
              formatted_date |-> strftime(rounded.value, "%B %d %Y")]

\* the dict replaced by one that holds the new entry alone
dict_set_replace(dict, key, value) == [k \in {key} |-> value]

\* announcement_dates[week] = formatted_date on a dict
dict_set(dict, key, value) ==
    [k \in (DOMAIN dict) \cup {key} |-> IF k = key THEN value ELSE dict[k]]

(***************************************************************************)
(* The inputs of a call.                                                   *)
(***************************************************************************)
Modules == {"course_utils", "utils"}

\* the start dates of the spec's examples: Monday 2025-09-01 and Tuesday
\* 2025-09-02
ExampleStartDays ==
    { [year |-> 2025, month |-> 9, day |-> 1, second |-> 0],
      [year |-> 2025, month |-> 9, day |-> 2, second |-> 0] }

\* the first day of the window of start dates, Wednesday 2023-12-27: the
\* window crosses the year's end, the announcement weeks after it cross
\* 2024-02-29
WindowStart == [year |-> 2023, month |-> 12, day |-> 27, second |-> 0]

StartDays ==
    { plus_days(WindowStart, k).value : k \in 0..(StartSpan - 1) }
        \cup ExampleStartDays

\* the days around which "today" ranges
AnchorDays ==
    { WindowStart, [year |-> 2025, month |-> 9, day |-> 1, second |-> 0] }

\* midnight, noon, the last second of the day
TimesOfDay == {0, 43200, 86399}

\* the values datetime.now() may return
Nows ==
    { fromordinal(toordinal(a) + k, t) :
        a \in AnchorDays,
        k \in (-DaysBefore)..(StartSpan - 1 + DaysAfter),
        t \in TimesOfDay }

\* strings that are not a start day written as %Y-%m-%d
OtherStrings ==
    { <<"2", "0", "2", "5", "-", "9", "-", "2">>,
      <<"2", "0", "2", "5", "-", "0", "9", "-", " ", "2">>,
      <<"2", "0", "2", "5", "-", "9", "-", "0", "7">>,
      <<"2", "0", "2", "5", "-", "1", "3", "-", "0", "1">>,
      <<"2", "0", "2", "5", "-", "0", "2", "-", "3", "0">>,
      <<"2", "0", "2", "5", "-", "0", "0", "-", "1", "0">>,
      <<"2", "0", "2", "5", "-", "0", "9", "-", "0">>,
      <<"2", "0", "2", "5", "-", "0", "9", "-", "0", "2", " ">>,
      <<"2", "0", "2", "5", "-", "0", "9", "-", "0", "2", "1">>,
      <<"0", "0", "0", "0", "-", "0", "1", "-", "0", "1">>,
      <<"0", "9", "/", "0", "2", "/", "2", "0", "2", "5">>,
      <<"2", "0", "2", "5", "0", "9", "0", "2">>,
      <<"2", "0", "2", "5", "-", "0", "9">>,
      <<>>,
      <<"S", "e", "p", "t", "e", "m", "b", "e", "r", " ", "0", "2", " ", "2", "0", "2", "5">> }

\* a start day as the tests write it: strftime("%Y-%m-%d")
IsoString(d) == strftime(d, "%Y-%m-%d")

StartStrings == { IsoString(d) : d \in StartDays } \cup OtherStrings

\* the weeks a record may carry
Weeks == (MIN_WEEK - WeekBelow)..(MAX_WEEK + WeekAbove)

\* the weeks of the records of the longer lists: below the range, the first
\* weeks, above the range
ListWeeks ==
    {MIN_WEEK - WeekBelow, MIN_WEEK - 1, MIN_WEEK, MIN_WEEK + 1, MIN_WEEK + 2,
     MAX_WEEK + 1}

Record(w) == [week |-> w, title |-> "Announcement"]

RECURSIVE SeqsUpTo(_, _)
SeqsUpTo(S, n) ==
    IF n = 0 THEN { << >> }
    ELSE LET shorter == SeqsUpTo(S, n - 1)
         IN  shorter \cup { Append(q, x) : q \in shorter, x \in S }

\* a list of one record of any week, or of up to MaxRecords records with
\* weeks of ListWeeks, repeated weeks included
AnnouncementLists ==
    { <<Record(w)>> : w \in Weeks }
        \cup SeqsUpTo({ Record(w) : w \in ListWeeks }, MaxRecords)

(***************************************************************************)
(* The state: the function called and the module it is called in, its      *)
(* arguments, the locals of its body, what it returned or raised.          *)
(***************************************************************************)
VARIABLES
    module,             \* "course_utils" or "utils"
    fn,                 \* the function called
    pc,                 \* "idle", "loop", "returned" or "raised"
    course_start_date,  \* argument: str
    announcements,      \* argument: list of records
    current_date,       \* datetime.now() as read by calculate_current_week
    start_date,         \* the parsed start date
    idx,                \* how many records the loop has handled
    week,               \* loop local
    announcement_date,  \* loop local: the rounded date
    formatted_date,     \* loop local
    announcement_dates, \* the dict the loop fills and the function returns
    current_week,       \* the week calculate_current_week returns
    raised,             \* the exception that ended the call
    passed,             \* the caller's copy of the arguments, made at the call
    kept_call,          \* << >>, or one finished call the caller has kept
    calls_since         \* calls made since that one was kept: 0, 1, 2 (or more)

\* ResponseGenerator._select_few_shots: arguments, local, return value
VARIABLES
    content,            \* argument: str
    examples,           \* argument: list of (post, response)
    k,                  \* argument: int
    ranked,             \* local: the examples sorted
    few_shots           \* the list returned

\* resolve_course and get_week_prompt: arguments and return values
VARIABLES
    course_selector,    \* argument: [str |-> s] or [int |-> n]
    week_id,            \* argument: int
    config,             \* argument: dict
    course,             \* the course resolve_course returns
    prompt,             \* the text get_week_prompt returns
    course_and_topic,   \* the pair resolve_course_and_topic returns
    message             \* the message of the exception raised

\* LLMManager, discussions._detect_llm_provider and Settings: arguments,
\* locals and return values
VARIABLES
    openai_key,         \* argument: None or str
    anthropic_key,      \* argument: None or str
    deepseek_key,       \* argument: None or str
    available_providers,\* local of the detectors: list of (provider, name)
    provider,           \* argument of create_llm, return value of the detectors
    api_key,            \* argument of create_llm
    llm,                \* the client create_llm returns
    settings,           \* self of the Settings methods
    providers,          \* the list get_available_providers returns
    error_message       \* the message of the exception raised

\* schemas: the keyword arguments of a model and the instance made of them
VARIABLES
    data,               \* argument: dict
    instance            \* the validated model

\* discussions.run_discussion_action, announcements.schedule_announcements and
\* the CanvasService they drive: arguments, attributes of self, locals
VARIABLES
    email,              \* argument: None or str
    password,           \* argument: None or str
    playwright,         \* self.playwright: None, "started" or "stopped"
    browser,            \* self.browser: None, "open" or "closed"
    context,            \* self.context: None, "open" or "closed"
    page,               \* self.page: None or "open"
    window,             \* the browser window: "none", "open" or "closed"
    released,           \* what __exit__ has closed so far, in order
    authors,            \* the list query_selector_all returned
    handled,            \* the authors the for loop has taken and how each ended
    success,            \* what process_discussion_authors returned
    answer,             \* what input() returned
    stop,               \* local of run_discussion_loop
    passes,             \* the passes of the while loop of this call so far
    prompts,            \* the calls of input() of this call so far
    loop_ends,          \* how each call of run_discussion_loop ended
    clicked,            \* the click of line 112: "no", "done" or "raised"
    attempted,          \* the announcements the for loop has taken and how
    successful_announcements,   \* local of schedule_announcements
    failed_announcements        \* local of schedule_announcements

\* main.py: the flag, the monitor thread, what the user was told
VARIABLES
    browser_closed,     \* the global flag
    monitor,            \* the monitor thread: "none", "check", "sleep", "ended"
    other_chrome,       \* a Chrome process that is not the action's browser
    signalled,          \* SIGINT or SIGTERM was received
    reported            \* the error message of the action was printed

\* the function called, where it stands and how it ended
control == <<module, fn, pc, raised>>

date_locals == <<course_start_date, announcements, current_date, start_date,
                 idx, week, announcement_date, formatted_date,
                 announcement_dates, current_week, passed>>

date_vars == <<control, date_locals>>

caller_vars == <<kept_call, calls_since>>

selector_vars == <<content, examples, k, ranked, few_shots>>

course_vars ==
    <<course_selector, week_id, config, course, prompt, course_and_topic,
      message>>

llm_vars == <<openai_key, anthropic_key, deepseek_key, available_providers,
              provider, api_key, llm, settings, providers, error_message>>

schema_vars == <<data, instance>>

session_vars == <<playwright, browser, context, page, window, released>>

discussion_vars ==
    <<authors, handled, success, answer, stop, passes, prompts, loop_ends,
      clicked>>

announcement_vars ==
    <<attempted, successful_announcements, failed_announcements>>

workflow_vars ==
    <<email, password, session_vars, discussion_vars, announcement_vars>>

main_vars == <<browser_closed, monitor, other_chrome, signalled, reported>>

\* the variables of the other components
beyond_dates == <<selector_vars, course_vars, llm_vars, schema_vars,
      workflow_vars, main_vars>>

beyond_selector ==
    <<date_locals, caller_vars, course_vars, llm_vars, schema_vars,
      workflow_vars, main_vars>>

beyond_courses ==
    <<date_locals, caller_vars, selector_vars, llm_vars, schema_vars,
      workflow_vars, main_vars>>

beyond_llm ==
    <<date_locals, caller_vars, selector_vars, course_vars, schema_vars,
      workflow_vars, main_vars>>

beyond_schemas ==
    <<date_locals, caller_vars, selector_vars, course_vars, llm_vars,
      workflow_vars, main_vars>>

\* what the workflows leave alone: the locals of the date functions, of
\* create_llm and of Settings, and the other components
beyond_workflow ==
    <<start_date, idx, week, announcement_date, formatted_date, passed,
      caller_vars, selector_vars, api_key, llm, settings, providers,
      error_message, schema_vars>>

loop_locals == <<idx, week, announcement_date, formatted_date,
                 announcement_dates>>

\* the state before any call of the date functions
DatesInit ==
    /\ module = None
    /\ fn = None
    /\ pc = "idle"
    /\ course_start_date = << >>
    /\ announcements = << >>
    /\ current_date = NoDate
    /\ start_date = NoDate
    /\ idx = 0
    /\ week = None
    /\ announcement_date = NoDate
    /\ formatted_date = << >>
    /\ announcement_dates = << >>
    /\ current_week = None
    /\ raised = NoError
    /\ passed = [course_start_date |-> << >>, announcements |-> << >>]
    /\ kept_call = << >>
    /\ calls_since = 0

\* a dict that outlives the call: the one the call before left behind
new_announcement_dates_kept == announcement_dates

\* announcement_dates = {}
new_announcement_dates == << >>

\* the body of calculate_current_week(s) of module mod, datetime.now() = now;
\* the frame is new, so the loop locals of the other function are not there
enter_calculate_current_week(mod, s, now) ==
    LET parsed == IF mod = "course_utils" THEN parse_start_date(s)
                  ELSE utils_parse_start_date(s)
    IN  /\ module' = mod
        /\ fn' = "calculate_current_week"
        /\ course_start_date' = s
        /\ passed' = [course_start_date |-> s, announcements |-> << >>]
        /\ start_date' = parsed.value
        /\ IF parsed.exc # NoError
           THEN /\ raised' = parsed.exc
                /\ pc' = "raised"
                /\ current_date' = NoDate
                /\ current_week' = None
           ELSE /\ raised' = NoError
                /\ pc' = "returned"
                /\ current_date' = now
                /\ current_week' =
                     IF mod = "course_utils"
                     THEN calculate_current_week(parsed.value, now)
                     ELSE utils_calculate_current_week(parsed.value, now)
        /\ announcements' = << >>
        /\ idx' = 0
        /\ week' = None
        /\ announcement_date' = NoDate
        /\ formatted_date' = << >>
        /\ announcement_dates' = << >>

\* calculate_current_week(course_start_date) of module mod
call_calculate_current_week(mod) ==
    /\ pc = "idle"
    /\ \E s \in StartStrings, now \in Nows :
        enter_calculate_current_week(mod, s, now)
    /\ UNCHANGED <<caller_vars, beyond_dates>>

course_utils_calculate_current_week ==
    call_calculate_current_week("course_utils")

utils_calculate_current_week_call == call_calculate_current_week("utils")

\* the body of calculate_announcement_dates(s, list) of module mod, up to the
\* loop: the start date is parsed, the dict is empty
enter_calculate_announcement_dates(mod, s, list) ==
    LET parsed == IF mod = "course_utils" THEN parse_start_date(s)
                  ELSE utils_parse_start_date(s)
    IN  /\ module' = mod
        /\ fn' = "calculate_announcement_dates"
        /\ course_start_date' = s
        /\ announcements' = list
        /\ passed' = [course_start_date |-> s, announcements |-> list]
        /\ start_date' = parsed.value
        /\ raised' = parsed.exc
        /\ pc' = IF parsed.exc # NoError THEN "raised" ELSE "loop"
        /\ announcement_dates' =
             IF parsed.exc # NoError THEN << >> ELSE new_announcement_dates
        /\ idx' = 0
        /\ week' = None
        /\ announcement_date' = NoDate
        /\ formatted_date' = << >>
        /\ current_date' = NoDate
        /\ current_week' = None

\* calculate_announcement_dates(course_start_date, announcements) of module
\* mod
call_calculate_announcement_dates(mod) ==
    /\ pc = "idle"
    /\ \E s \in StartStrings, list \in AnnouncementLists :
        enter_calculate_announcement_dates(mod, s, list)
    /\ UNCHANGED <<caller_vars, beyond_dates>>

course_utils_calculate_announcement_dates ==
    call_calculate_announcement_dates("course_utils")

utils_calculate_announcement_dates ==
    call_calculate_announcement_dates("utils")

\* one iteration of `for announcement in announcements`
loop_iteration ==
    /\ pc = "loop"
    /\ idx < Len(announcements)
    /\ LET announcement == announcements[idx + 1]
           step == IF module = "course_utils"
                   THEN announcement_step(start_date, announcement.week)
                   ELSE utils_announcement_step(start_date, announcement.week)
       IN  /\ week' = announcement.week
           /\ idx' = idx + 1
           /\ IF step.exc # NoError
              THEN /\ raised' = step.exc
                   /\ pc' = "raised"
                   /\ UNCHANGED <<announcement_date, formatted_date,
                                  announcement_dates>>
              ELSE /\ announcement_date' = step.announcement_date
                   /\ formatted_date' = step.formatted_date
                   /\ announcement_dates' =
                        dict_set(announcement_dates, announcement.week,
                                 step.formatted_date)
                   /\ UNCHANGED <<raised, pc>>
    /\ UNCHANGED <<module, fn, course_start_date, announcements, current_date,
                   start_date, current_week, passed, caller_vars,
                   beyond_dates>>

\* return announcement_dates
return_announcement_dates ==
    /\ pc = "loop"
    /\ idx = Len(announcements)
    /\ pc' = "returned"
    /\ UNCHANGED <<module, fn, course_start_date, announcements, current_date,
                   start_date, loop_locals, current_week, raised, passed,
                   caller_vars, beyond_dates>>

DatesNext ==
    \/ course_utils_calculate_current_week
    \/ utils_calculate_current_week_call
    \/ course_utils_calculate_announcement_dates
    \/ utils_calculate_announcement_dates
    \/ loop_iteration
    \/ return_announcement_dates

(***************************************************************************)
(* A caller that calls the date functions one after the other, as          *)
(* test_week_bounds does, and keeps what one of the calls gave.  The       *)
(* arguments and the values of datetime.now() are few, so that a call is   *)
(* repeated with the arguments of the call that was kept.                  *)
(***************************************************************************)
RepeatStartStrings ==
    { IsoString(d) : d \in ExampleStartDays }
        \cup { <<"2", "0", "2", "5", "-", "0", "2", "-", "3", "0">> }

\* Sunday 2025-09-07 at noon, Monday 2025-09-08 at midnight and at 23:59:59
RepeatNows ==
    { [year |-> 2025, month |-> 9, day |-> 7, second |-> 43200],
      [year |-> 2025, month |-> 9, day |-> 8, second |-> 0],
      [year |-> 2025, month |-> 9, day |-> 8, second |-> 86399] }

RepeatLists ==
    { <<Record(1)>>, <<Record(1), Record(2)>>, <<Record(2), Record(1)>>,
      <<Record(9), Record(1)>> }

\* the day of datetime.now() as the call read it, 0 if it did not read it
TodayOfCall == IF current_date = NoDate THEN 0 ELSE toordinal(current_date)

\* what the finished call gave: the exception, the week, the date map
OutcomeOfCall ==
    [exc   |-> raised,
     week  |-> IF fn = "calculate_current_week" /\ pc = "returned"
               THEN current_week ELSE 0,
     dates |-> IF fn = "calculate_announcement_dates" /\ pc = "returned"
               THEN announcement_dates ELSE << >>]

\* the finished call as the caller keeps it
FinishedCall ==
    [module |-> module, fn |-> fn,
     course_start_date |-> passed.course_start_date,
     announcements |-> passed.announcements,
     today |-> TodayOfCall,
     outcome |-> OutcomeOfCall]

CallFinished == pc \in {"returned", "raised"}

\* the caller may call when no call is running
MayCall == pc = "idle" \/ CallFinished

\* a call made after one was kept is counted, up to 2
count_call ==
    calls_since' = IF kept_call = << >> THEN 0 ELSE Min(calls_since + 1, 2)

\* result = calculate_current_week(old_date), again and again
caller_calculate_current_week ==
    /\ MayCall
    /\ \E mod \in Modules, s \in RepeatStartStrings, now \in RepeatNows :
        enter_calculate_current_week(mod, s, now)
    /\ count_call
    /\ UNCHANGED <<kept_call, beyond_dates>>

\* dates = calculate_announcement_dates(start_date, announcements)
caller_calculate_announcement_dates ==
    /\ MayCall
    /\ \E mod \in Modules, s \in RepeatStartStrings, list \in RepeatLists :
        enter_calculate_announcement_dates(mod, s, list)
    /\ count_call
    /\ UNCHANGED <<kept_call, beyond_dates>>

\* the caller keeps the outcome of the call that has just finished
caller_keeps_result ==
    /\ CallFinished
    /\ kept_call = << >>
    /\ kept_call' = <<FinishedCall>>
    /\ calls_since' = 0
    /\ UNCHANGED <<date_vars, beyond_dates>>

CallsNext ==
    \/ caller_calculate_current_week
    \/ caller_calculate_announcement_dates
    \/ loop_iteration
    \/ return_announcement_dates
    \/ caller_keeps_result

(***************************************************************************)
(* response_generator.py: ResponseGenerator._select_few_shots.  The score  *)
(* of an example is difflib.SequenceMatcher(None, a, b).ratio() of the     *)
(* lower-cased content a and post b: 2 * M / T with T the two lengths      *)
(* added and M the characters in the matching blocks, which are found by   *)
(* taking the longest matching block (the first in a, then in b, among the *)
(* longest) and then the blocks to its left and to its right; 1.0 when     *)
(* T = 0.  (No junk: the popularity heuristic needs a post of 200          *)
(* characters.)  Positions are counted from 0, ranges are half open.       *)
(***************************************************************************)
UPPERCASE ==
    <<"A", "B", "C", "D", "E", "F", "G", "H", "I", "J", "K", "L", "M",
      "N", "O", "P", "Q", "R", "S", "T", "U", "V", "W", "X", "Y", "Z">>

LOWERCASE ==
    <<"a", "b", "c", "d", "e", "f", "g", "h", "i", "j", "k", "l", "m",
      "n", "o", "p", "q", "r", "s", "t", "u", "v", "w", "x", "y", "z">>

\* the lower-case letter of an upper-case letter, any other character itself
lower_char(c) ==
    IF \E n \in 1..26 : UPPERCASE[n] = c
    THEN LOWERCASE[CHOOSE n \in 1..26 : UPPERCASE[n] = c]
    ELSE c

\* str.lower()
RECURSIVE lower(_)
lower(s) ==
    IF s = << >> THEN << >>
    ELSE <<lower_char(Head(s))>> \o lower(Tail(s))

\* the length of the block a[i:i+n] = b[j:j+n] that starts at i, j and ends
\* before ahi, bhi
RECURSIVE match_size(_, _, _, _, _, _)
match_size(a, b, i, j, ahi, bhi) ==
    IF i < ahi /\ j < bhi /\ a[i + 1] = b[j + 1]
    THEN 1 + match_size(a, b, i + 1, j + 1, ahi, bhi)
    ELSE 0

\* SequenceMatcher.find_longest_match(alo, ahi, blo, bhi): [i, j, size]
find_longest_match(a, b, alo, ahi, blo, bhi) ==
    LET starts == (alo..(ahi - 1)) \X (blo..(bhi - 1))
        size(p) == match_size(a, b, p[1], p[2], ahi, bhi)
        longest == { p \in starts : \A q \in starts : size(q) <= size(p) }
        first == CHOOSE p \in longest :
                    \A q \in longest :
                        p[1] < q[1] \/ (p[1] = q[1] /\ p[2] <= q[2])
    IN  IF starts = {} \/ size(first) = 0
        THEN [i |-> alo, j |-> blo, size |-> 0]
        ELSE [i |-> first[1], j |-> first[2], size |-> size(first)]

\* the sum of the sizes of SequenceMatcher.get_matching_blocks() in the ranges
RECURSIVE matches(_, _, _, _, _, _)
matches(a, b, alo, ahi, blo, bhi) ==
    LET x == find_longest_match(a, b, alo, ahi, blo, bhi)
    IN  IF x.size = 0 THEN 0
        ELSE (IF alo < x.i /\ blo < x.j
              THEN matches(a, b, alo, x.i, blo, x.j) ELSE 0)
             + x.size
             + (IF x.i + x.size < ahi /\ x.j + x.size < bhi
                THEN matches(a, b, x.i + x.size, ahi, x.j + x.size, bhi)
                ELSE 0)

\* SequenceMatcher(None, a, b).ratio() as the fraction num / den
ratio(a, b) ==
    IF Len(a) + Len(b) = 0
    THEN [num |-> 1, den |-> 1]
    ELSE [num |-> 2 * matches(a, b, 0, Len(a), 0, Len(b)),
          den |-> Len(a) + Len(b)]

\* score(example_post) for the content c
score(c, example_post) == ratio(lower(c), lower(example_post))

\* x < y for two ratios
less_than(x, y) == x.num * y.den < y.num * x.den

\* list(reversed(s))
RECURSIVE reversed(_)
reversed(s) ==
    IF s = << >> THEN << >>
    ELSE Append(reversed(Tail(s)), Head(s))

\* x put into the list s, which ascends by key, behind the entries that are
\* not greater
insort(s, x) ==
    LET n == Cardinality({ i \in 1..Len(s) : ~less_than(x.key, s[i].key) })
    IN  SubSeq(s, 1, n) \o <<x>> \o SubSeq(s, n + 1, Len(s))

\* list.sort() of [key, item] records by key: ascending, stable
RECURSIVE sort_ascending(_)
sort_ascending(s) ==
    IF s = << >> THEN << >>
    ELSE LET front == sort_ascending(SubSeq(s, 1, Len(s) - 1))
         IN  insort(front, s[Len(s)])

\* sorted ascending and then turned round: equal keys change places
sort_reverse_turned(s) == reversed(sort_ascending(s))

\* list.sort(reverse = True): the list is reversed, sorted ascending and
\* reversed again, which keeps entries of equal key in their order
sort_reverse(s) == reversed(sort_ascending(reversed(s)))

\* sorted(examples, key = lambda pr: score(pr[0]), reverse = True) for the
\* content c and the examples e: the keys are computed once, the list of
\* [key, item] is sorted, the items are taken out
RECURSIVE keyed(_, _)
keyed(c, e) ==
    IF e = << >> THEN << >>
    ELSE <<[key |-> score(c, Head(e)[1]), item |-> Head(e)]>>
            \o keyed(c, Tail(e))

\* the items of a list of [key, item] records
RECURSIVE items(_)
items(s) ==
    IF s = << >> THEN << >>
    ELSE <<Head(s).item>> \o items(Tail(s))

sorted_examples(c, e) == items(sort_reverse(keyed(c, e)))

\* one entry more than asked for
slice_to_inclusive(s, n) ==
    IF n >= 0 THEN SubSeq(s, 1, Min(n + 1, Len(s)))
    ELSE SubSeq(s, 1, Max(Len(s) + n + 1, 0))

\* s[:n]
slice_to(s, n) ==
    IF n >= 0 THEN SubSeq(s, 1, Min(n, Len(s)))
    ELSE SubSeq(s, 1, Max(Len(s) + n, 0))

\* the content whose examples are looked for: "ab", "aB", ""
Contents == { <<"a", "b">>, <<"a", "B">>, << >> }

\* the posts of the examples: "ab", "AB", "ba", "b", ""
Posts == { <<"a", "b">>, <<"A", "B">>, <<"b", "a">>, <<"b">>, << >> }

\* the response of the example at position i of the pool: "r1", "r2", ...
ResponseAt(i) == <<"r">> \o decimal(i)

\* the posts q made examples, the first at position i
RECURSIVE pool_of(_, _)
pool_of(q, i) ==
    IF q = << >> THEN << >>
    ELSE << <<Head(q), ResponseAt(i)>> >> \o pool_of(Tail(q), i + 1)

\* the pools of at most MaxPool examples
Pools == { pool_of(q, 1) : q \in SeqsUpTo(Posts, MaxPool) }

\* the state before any call of _select_few_shots
SelectorInit ==
    /\ content = << >>
    /\ examples = << >>
    /\ k = 0
    /\ ranked = << >>
    /\ few_shots = << >>

\* few_shots = self._select_few_shots(content, examples, k)
select_few_shots ==
    /\ pc = "idle"
    /\ \E c \in Contents, e \in Pools, n \in (-1)..MaxK :
        /\ content' = c
        /\ examples' = e
        /\ k' = n
        /\ ranked' = sorted_examples(c, e)
        /\ few_shots' = slice_to(ranked', n)
    /\ module' = "response_generator"
    /\ fn' = "_select_few_shots"
    /\ pc' = "returned"
    /\ raised' = NoError
    /\ UNCHANGED beyond_selector

SelectorNext == select_few_shots

(***************************************************************************)
(* course_utils.py and utils.py: resolve_course; course_utils.py:          *)
(* get_week_prompt.  A str is a sequence of characters; the text of a      *)
(* message or of a prompt is a sequence of pieces, the pieces an f-string  *)
(* puts together.  A dict with fixed keys (the config, a course, the data  *)
(* of a week) is a function on its keys, {} the function on no key.  A     *)
(* dict whose keys are data (the courses, the weeks) is [items |-> the     *)
(* list of <<key, value>> in the order of the file]; the JSON null is      *)
(* [null |-> TRUE].  An argument is [str |-> s] or [int |-> n].            *)
(***************************************************************************)
EmptyDict == << >>

NoItems == [items |-> << >>]

JsonNull == [null |-> TRUE]

AttributeError == "AttributeError"

\* str(n) of an int
int_str(n) == IF n < 0 THEN <<"-">> \o decimal(-n) ELSE decimal(n)

\* str(x) of a str or an int
py_str(x) == IF "int" \in DOMAIN x THEN int_str(x.int) ELSE x.str

\* d.get(field, default) of a dict with fixed keys
get(d, field, default) == IF field \in DOMAIN d THEN d[field] ELSE default

\* x in d: d has the item key x (no int equals a str)
contains(d, x) ==
    /\ "str" \in DOMAIN x
    /\ \E i \in 1..Len(d.items) : d.items[i][1] = x.str

\* d[x]
item(d, x) ==
    d.items[CHOOSE i \in 1..Len(d.items) : d.items[i][1] = x.str][2]

\* list(d.values())
RECURSIVE values_of(_)
values_of(s) ==
    IF s = << >> THEN << >>
    ELSE <<Head(s)[2]>> \o values_of(Tail(s))

values(d) == values_of(d.items)

\* not v for a dict v with fixed keys
is_empty(v) == DOMAIN v = {}

\* the course the selector x picks in the courses t: << >> for None, or
\* <<the course>>
selected_course(x, t) ==
    LET by_id == SelectSeq(values(t),
                     LAMBDA c : get(c, "course_id", << >>) = py_str(x)
                                /\ "course_id" \in DOMAIN c)
    IN  IF contains(t, x) THEN <<item(t, x)>>
        ELSE IF by_id # << >> THEN <<Head(by_id)>>
        ELSE << >>

\* resolve_course(x, cfg) of course_utils.py
resolve_course(x, cfg) ==
    LET found == selected_course(x, get(cfg, "courses", NoItems))
    IN  IF found = << >> \/ is_empty(found[1])
        THEN [exc |-> ValueError,
              message |-> <<"Course '", py_str(x),
                            "' not found in courses.json">>,
              value |-> EmptyDict]
        ELSE [exc |-> NoError, message |-> << >>, value |-> found[1]]

\* resolve_course(x, cfg) of utils.py
utils_resolve_course(x, cfg) ==
    LET t     == IF "courses" \in DOMAIN cfg THEN cfg.courses ELSE NoItems
        by_id == SelectSeq(values(t),
                     LAMBDA c : "course_id" \in DOMAIN c
                                /\ c.course_id = py_str(x))
        found == IF contains(t, x) THEN <<item(t, x)>>
                 ELSE IF by_id # << >> THEN <<Head(by_id)>>
                 ELSE << >>
    IN  IF found = << >> \/ DOMAIN found[1] = {}
        THEN [exc |-> ValueError,
              message |-> <<"Course '", py_str(x),
                            "' not found in courses.json">>,
              value |-> EmptyDict]
        ELSE [exc |-> NoError, message |-> << >>, value |-> found[1]]

\* the course looked up with courses[course_selector]: KeyError for a key
\* that is not there
course_of_selector_subscript(x, t) ==
    IF contains(t, x) THEN [exc |-> NoError, value |-> item(t, x)]
    ELSE [exc |-> "KeyError", value |-> EmptyDict]

\* config.get('courses', {}).get(course_selector, {})
course_of_selector(x, t) ==
    [exc |-> NoError,
     value |-> IF contains(t, x) THEN item(t, x) ELSE EmptyDict]

\* weeks.get(str(week_id)) for the value w of 'weeks': None has no get
week_data_of(w, n) ==
    IF "null" \in DOMAIN w
    THEN [exc |-> AttributeError, found |-> FALSE, value |-> EmptyDict]
    ELSE IF contains(w, [str |-> int_str(n)])
    THEN [exc |-> NoError, found |-> TRUE,
          value |-> item(w, [str |-> int_str(n)])]
    ELSE [exc |-> NoError, found |-> FALSE, value |-> EmptyDict]

\* get_week_prompt(x, n, cfg): the text returned
get_week_prompt(x, n, cfg) ==
    LET c == course_of_selector(x, get(cfg, "courses", NoItems))
        w == week_data_of(get(c.value, "weeks", NoItems), n)
    IN  IF c.exc # NoError
        THEN <<"<Prompt not available: ", <<"'">> \o py_str(x) \o <<"'">>,
               ">">>
        ELSE IF w.exc # NoError
        THEN <<"<Prompt not available: ",
               "'NoneType' object has no attribute 'get'", ">">>
        ELSE IF w.found /\ ~is_empty(w.value)
        THEN get(w.value, "discussion_prompt", <<"No prompt available">>)
        ELSE <<"No week ", int_str(n), " data found">>

FILL_ME == <<"F", "I", "L", "L", "_", "M", "E">>

\* resolve_course_and_topic(x, n, cfg) of module mod: (course_id, topic_id)
resolve_course_and_topic(mod, x, n, cfg) ==
    LET r == IF mod = "course_utils" THEN resolve_course(x, cfg)
             ELSE utils_resolve_course(x, cfg)
        w == week_data_of(get(r.value, "weeks", NoItems), n)
        t == get(w.value, "topic_id", << >>)
    IN  IF r.exc # NoError
        THEN [exc |-> r.exc, message |-> r.message, value |-> << >>]
        ELSE IF w.exc # NoError
        THEN [exc |-> w.exc,
              message |-> <<"'NoneType' object has no attribute 'get'">>,
              value |-> << >>]
        ELSE IF ~w.found \/ is_empty(w.value)
        THEN [exc |-> ValueError,
              message |-> <<"Missing week ", int_str(n), " data in course ",
                            py_str(x)>>,
              value |-> << >>]
        ELSE IF t = << >> \/ t = FILL_ME
        THEN [exc |-> ValueError,
              message |-> <<"Missing topic_id for week ", int_str(n),
                            " in course ", py_str(x)>>,
              value |-> << >>]
        ELSE [exc |-> NoError, message |-> << >>,
              value |-> <<get(r.value, "course_id", JsonNull), t>>]

\* the values of 'weeks' of a course
WeeksValues ==
    << NoItems,
       [items |-> << << <<"1">>,
                        [discussion_prompt |-> <<"Test prompt">>] >> >>],
       [items |-> << << <<"1">>, [topic_id |-> <<"5">>] >>,
                     << <<"2">>, EmptyDict >>,
                     << <<"9", "9">>,
                        [topic_id |-> <<"7">>,
                         discussion_prompt |-> <<"Week 99">>] >> >>],
       JsonNull >>

\* the courses of a file: with and without course_id, name and weeks; two
\* with the same course_id; one whose course_id is the key "A"; an empty one
CourseRecords ==
    { [course_id |-> <<"1", "2", "3", "4", "5">>,
       name |-> <<"Test Course">>] }
    \cup { [course_id |-> <<"1", "2", "3", "4", "5">>, weeks |-> WeeksValues[i]] :
             i \in 1..Len(WeeksValues) }
    \cup { [course_id |-> <<"6", "7", "8", "9", "0">>, weeks |-> WeeksValues[3]],
           [course_id |-> <<"A">>, name |-> <<"Named A">>],
           [weeks |-> WeeksValues[2]],
           EmptyDict }

CourseKeys == { <<"A">>, <<"B">>, <<"1", "2", "3", "4", "5">> }

\* the lists of at most n items with distinct keys
RECURSIVE ItemsUpTo(_)
ItemsUpTo(n) ==
    IF n = 0 THEN { << >> }
    ELSE LET shorter == ItemsUpTo(n - 1)
         IN  shorter
             \cup { Append(q, <<key, c>>) :
                      q \in { p \in shorter : Len(p) = n - 1 },
                      key \in CourseKeys, c \in CourseRecords }

DistinctKeys(q) == \A i, j \in 1..Len(q) : i # j => q[i][1] # q[j][1]

\* the configs: no 'courses', or the courses of a file of at most MaxCourses
Configs ==
    { EmptyDict }
    \cup { [courses |-> [items |-> q]] :
             q \in { p \in ItemsUpTo(MaxCourses) : DistinctKeys(p) } }

Selectors ==
    { [str |-> <<"A">>], [str |-> <<"B">>],
      [str |-> <<"1", "2", "3", "4", "5">>],
      [str |-> <<"6", "7", "8", "9", "0">>],
      [str |-> <<"N", "O", "N", "E">>],
      [int |-> 12345] }

WeekIds == {-1, 1, 2, 3, 99}

\* the state before any call of resolve_course or get_week_prompt
CoursesInit ==
    /\ course_selector = [str |-> << >>]
    /\ week_id = 0
    /\ config = EmptyDict
    /\ course = EmptyDict
    /\ prompt = << >>
    /\ message = << >>
    /\ course_and_topic = << >>

\* resolve_course(course_selector, config) of module mod
call_resolve_course(mod) ==
    /\ pc = "idle"
    /\ \E x \in Selectors, cfg \in Configs :
        LET r == IF mod = "course_utils" THEN resolve_course(x, cfg)
                 ELSE utils_resolve_course(x, cfg)
        IN  /\ course_selector' = x
            /\ config' = cfg
            /\ course' = r.value
            /\ raised' = r.exc
            /\ message' = r.message
            /\ pc' = IF r.exc # NoError THEN "raised" ELSE "returned"
    /\ module' = mod
    /\ fn' = "resolve_course"
    /\ UNCHANGED <<week_id, prompt, course_and_topic, beyond_courses>>

course_utils_resolve_course == call_resolve_course("course_utils")

utils_resolve_course_call == call_resolve_course("utils")

\* get_week_prompt(course_selector, week_id, config)
course_utils_get_week_prompt ==
    /\ pc = "idle"
    /\ \E x \in Selectors, n \in WeekIds, cfg \in Configs :
        /\ course_selector' = x
        /\ week_id' = n
        /\ config' = cfg
        /\ prompt' = get_week_prompt(x, n, cfg)
    /\ module' = "course_utils"
    /\ fn' = "get_week_prompt"
    /\ pc' = "returned"
    /\ raised' = NoError
    /\ UNCHANGED <<course, message, course_and_topic, beyond_courses>>

\* run_discussion_action, lines 74 to 76: resolve_course_and_topic, then
\* get_week_prompt with the same selector, week and config
discussions_topic_then_prompt ==
    /\ pc = "idle"
    /\ \E x \in Selectors, n \in WeekIds, cfg \in Configs :
        LET r == resolve_course_and_topic("course_utils", x, n, cfg)
        IN  /\ course_selector' = x
            /\ week_id' = n
            /\ config' = cfg
            /\ course_and_topic' = r.value
            /\ raised' = r.exc
            /\ message' = r.message
            /\ pc' = IF r.exc # NoError THEN "raised" ELSE "returned"
            /\ prompt' = IF r.exc # NoError THEN << >>
                         ELSE get_week_prompt(x, n, cfg)
    /\ module' = "discussions"
    /\ fn' = "run_discussion_action"
    /\ UNCHANGED <<course, beyond_courses>>

CoursesNext ==
    \/ course_utils_resolve_course
    \/ utils_resolve_course_call
    \/ course_utils_get_week_prompt
    \/ discussions_topic_then_prompt

(***************************************************************************)
(* LLM providers: LLMManager (llm_manager.py), _detect_llm_provider        *)
(* (discussions.py) and the Settings methods (env_validator.py).  An API   *)
(* key is None or a str; the functions only test its truth value.          *)
(***************************************************************************)
OPENAI_MODEL == "gpt-4o"
ANTHROPIC_MODEL == "claude-3-5-sonnet-20241022"
DEEPSEEK_MODEL == "deepseek-chat"
DEEPSEEK_BASE_URL == "https://api.deepseek.com/v1"
TEMPERATURE == "0.8"

\* bool(v) of a value that is None or a str
truthy(v) == v # None /\ v # ""

\* any(list)
any(list) == \E i \in 1..Len(list) : truthy(list[i])

\* every truthy element, not any: not the code
any_of_all(list) == \A i \in 1..Len(list) : truthy(list[i])

\* list.append(x) when cond holds
append_if(list, cond, x) == IF cond THEN Append(list, x) ELSE list

\* the list both detectors and get_available_providers build
providers_of(key1, key2, key3) ==
    LET with_openai    == append_if(<< >>, truthy(key1), <<"openai", "OpenAI">>)
        with_anthropic == append_if(with_openai, truthy(key2),
                                    <<"anthropic", "Anthropic">>)
    IN  append_if(with_anthropic, truthy(key3), <<"deepseek", "DeepSeek">>)

NoKeysFound ==
    <<"No LLM API keys found. Please set at least one of: ",
      "OPENAI_API_KEY, ANTHROPIC_API_KEY, or DEEPSEEK_API_KEY">>

\* the last of the available providers: not the code
detect_provider_last(key1, key2, key3) ==
    LET list == providers_of(key1, key2, key3)
    IN  IF list = << >>
        THEN [exc |-> ValueError, message |-> NoKeysFound, value |-> None,
              list |-> list]
        ELSE [exc |-> NoError, message |-> << >>,
              value |-> list[Len(list)][1], list |-> list]

\* LLMManager.detect_provider(openai_key, anthropic_key, deepseek_key)
detect_provider(key1, key2, key3) ==
    LET list == providers_of(key1, key2, key3)
    IN  IF list = << >>
        THEN [exc |-> ValueError, message |-> NoKeysFound, value |-> None,
              list |-> list]
        ELSE [exc |-> NoError, message |-> << >>, value |-> list[1][1],
              list |-> list]

\* discussions._detect_llm_provider(openai_key, anthropic_key, deepseek_key)
_detect_llm_provider(key1, key2, key3) ==
    LET with_openai    == IF truthy(key1)
                          THEN << <<"openai", "OpenAI">> >> ELSE << >>
        with_anthropic == IF truthy(key2)
                          THEN Append(with_openai, <<"anthropic", "Anthropic">>)
                          ELSE with_openai
        list           == IF truthy(key3)
                          THEN Append(with_anthropic, <<"deepseek", "DeepSeek">>)
                          ELSE with_anthropic
    IN  IF Len(list) = 0
        THEN [exc |-> ValueError, message |-> NoKeysFound, value |-> None,
              list |-> list]
        ELSE [exc |-> NoError, message |-> << >>, value |-> Head(list)[1],
              list |-> list]

NoLLM == [class |-> None]

KeyRequired(name) ==
    <<name, " API key is required when using ", name, " provider">>

\* what a branch of create_llm does once the provider is known
client_or_error(name, key, client) ==
    IF ~truthy(key)
    THEN [exc |-> ValueError, message |-> KeyRequired(name), value |-> NoLLM]
    ELSE [exc |-> NoError, message |-> << >>, value |-> client]

\* the deepseek branch without its test of the key: not the code
create_llm_unchecked_deepseek(name, key, temp, verbose) ==
    LET temperature == IF temp = None THEN TEMPERATURE ELSE temp
    IN  IF name = "openai"
        THEN client_or_error("OpenAI", key,
                 [class |-> "ChatOpenAI", model |-> OPENAI_MODEL,
                  temperature |-> temperature, openai_api_key |-> key,
                  verbose |-> verbose])
        ELSE IF name = "anthropic"
        THEN client_or_error("Anthropic", key,
                 [class |-> "ChatAnthropic", model |-> ANTHROPIC_MODEL,
                  temperature |-> temperature, anthropic_api_key |-> key,
                  verbose |-> verbose])
        ELSE IF name = "deepseek"
        THEN [exc |-> NoError, message |-> << >>,
              value |-> [class |-> "ChatOpenAI", model |-> DEEPSEEK_MODEL,
                         temperature |-> temperature, openai_api_key |-> key,
                         base_url |-> DEEPSEEK_BASE_URL, verbose |-> verbose]]
        ELSE [exc |-> ValueError,
              message |-> <<"Unsupported provider: ", name>>, value |-> NoLLM]

\* LLMManager.create_llm(provider, api_key, temperature, verbose)
create_llm(name, key, temp, verbose) ==
    LET temperature == IF temp = None THEN TEMPERATURE ELSE temp
    IN  IF name = "openai"
        THEN client_or_error("OpenAI", key,
                 [class |-> "ChatOpenAI", model |-> OPENAI_MODEL,
                  temperature |-> temperature, openai_api_key |-> key,
                  verbose |-> verbose])
        ELSE IF name = "anthropic"
        THEN client_or_error("Anthropic", key,
                 [class |-> "ChatAnthropic", model |-> ANTHROPIC_MODEL,
                  temperature |-> temperature, anthropic_api_key |-> key,
                  verbose |-> verbose])
        ELSE IF name = "deepseek"
        THEN client_or_error("DeepSeek", key,
                 [class |-> "ChatOpenAI", model |-> DEEPSEEK_MODEL,
                  temperature |-> temperature, openai_api_key |-> key,
                  base_url |-> DEEPSEEK_BASE_URL, verbose |-> verbose])
        ELSE [exc |-> ValueError,
              message |-> <<"Unsupported provider: ", name>>, value |-> NoLLM]

\* Settings.get_available_providers(self)
get_available_providers(self) ==
    providers_of(self.OPENAI_API_KEY, self.ANTHROPIC_API_KEY,
                 self.DEEPSEEK_API_KEY)

KeyMustBeSet ==
    <<"At least one LLM API key must be set: ",
      "OPENAI_API_KEY, ANTHROPIC_API_KEY, or DEEPSEEK_API_KEY">>

\* Settings.validate_llm_keys(self) with all() for any(): not the code
validate_llm_keys_all(self) ==
    IF ~any_of_all(<<self.OPENAI_API_KEY, self.ANTHROPIC_API_KEY,
                     self.DEEPSEEK_API_KEY>>)
    THEN [exc |-> ValueError, message |-> KeyMustBeSet]
    ELSE [exc |-> NoError, message |-> << >>]

\* Settings.validate_llm_keys(self)
validate_llm_keys(self) ==
    IF ~any(<<self.OPENAI_API_KEY, self.ANTHROPIC_API_KEY,
              self.DEEPSEEK_API_KEY>>)
    THEN [exc |-> ValueError, message |-> KeyMustBeSet]
    ELSE [exc |-> NoError, message |-> << >>]

\* the API keys of the calls: unset, empty, blank, set
ApiKeys == {None, "", " ", "sk-test", "sk-ant-test"}

\* the provider names of the calls: the three supported ones, and others
ProviderNames == {"openai", "anthropic", "deepseek", "invalid", "OpenAI", ""}

Temperatures == {None, "0.2"}

\* the Settings objects: the credentials are validated on construction
SettingsObjects ==
    [CANVAS_USERNAME : {"test@example.com"}, CANVAS_PASSWORD : {"password"},
     OPENAI_API_KEY : ApiKeys, ANTHROPIC_API_KEY : ApiKeys,
     DEEPSEEK_API_KEY : ApiKeys]

NoSettings ==
    [CANVAS_USERNAME |-> None, CANVAS_PASSWORD |-> None,
     OPENAI_API_KEY |-> None, ANTHROPIC_API_KEY |-> None,
     DEEPSEEK_API_KEY |-> None]

LLMInit ==
    /\ openai_key = None
    /\ anthropic_key = None
    /\ deepseek_key = None
    /\ available_providers = << >>
    /\ provider = None
    /\ api_key = None
    /\ llm = NoLLM
    /\ settings = NoSettings
    /\ providers = << >>
    /\ error_message = << >>

\* a detector of module mod called with three keys
call_detector(mod, name) ==
    /\ pc = "idle"
    /\ \E key1 \in ApiKeys, key2 \in ApiKeys, key3 \in ApiKeys :
        LET r == IF mod = "llm_manager" THEN detect_provider(key1, key2, key3)
                 ELSE _detect_llm_provider(key1, key2, key3)
        IN  /\ openai_key' = key1
            /\ anthropic_key' = key2
            /\ deepseek_key' = key3
            /\ available_providers' = r.list
            /\ provider' = r.value
            /\ raised' = r.exc
            /\ error_message' = r.message
            /\ pc' = IF r.exc # NoError THEN "raised" ELSE "returned"
    /\ module' = mod
    /\ fn' = name
    /\ UNCHANGED <<api_key, llm, settings, providers, beyond_llm>>

LLMManager_detect_provider == call_detector("llm_manager", "detect_provider")

discussions_detect_llm_provider ==
    call_detector("discussions", "_detect_llm_provider")

LLMManager_create_llm ==
    /\ pc = "idle"
    /\ \E name \in ProviderNames, key \in ApiKeys, temp \in Temperatures,
          verbose \in BOOLEAN :
        LET r == create_llm(name, key, temp, verbose)
        IN  /\ provider' = name
            /\ api_key' = key
            /\ llm' = r.value
            /\ raised' = r.exc
            /\ error_message' = r.message
            /\ pc' = IF r.exc # NoError THEN "raised" ELSE "returned"
    /\ module' = "llm_manager"
    /\ fn' = "create_llm"
    /\ UNCHANGED <<openai_key, anthropic_key, deepseek_key, available_providers,
                   settings, providers, beyond_llm>>

Settings_validate_llm_keys ==
    /\ pc = "idle"
    /\ \E self \in SettingsObjects :
        LET r == validate_llm_keys(self)
        IN  /\ settings' = self
            /\ raised' = r.exc
            /\ error_message' = r.message
            /\ pc' = IF r.exc # NoError THEN "raised" ELSE "returned"
    /\ module' = "env_validator"
    /\ fn' = "validate_llm_keys"
    /\ UNCHANGED <<openai_key, anthropic_key, deepseek_key, available_providers,
                   provider, api_key, llm, providers, beyond_llm>>

Settings_get_available_providers ==
    /\ pc = "idle"
    /\ \E self \in SettingsObjects :
        /\ settings' = self
        /\ providers' = get_available_providers(self)
    /\ module' = "env_validator"
    /\ fn' = "get_available_providers"
    /\ pc' = "returned"
    /\ raised' = NoError
    /\ UNCHANGED <<openai_key, anthropic_key, deepseek_key, available_providers,
                   provider, api_key, llm, error_message, beyond_llm>>

LLMNext ==
    \/ LLMManager_detect_provider
    \/ discussions_detect_llm_provider
    \/ LLMManager_create_llm
    \/ Settings_validate_llm_keys
    \/ Settings_get_available_providers

(***************************************************************************)
(* schemas.py: the pydantic models of the configuration files.  The input  *)
(* of a model is the dict json.load gave: a str is [str |-> characters],   *)
(* an int [int |-> n], null [null |-> TRUE], a list [list |-> elements], a *)
(* dict with fixed keys a function on the keys it has, a dict whose keys   *)
(* are data [items |-> the list of <<key, value>>].  A model validates     *)
(* each field on its own: the type and the constraints of Field(...)       *)
(* first, then the field_validator of the class; one failing field fails   *)
(* the model with ValidationError.  Types are validated in pydantic's lax  *)
(* mode: an int field takes an int or a str of decimal digits, a str       *)
(* field takes a str only.  Keys the model does not declare are ignored.   *)
(***************************************************************************)
ValidationError == "ValidationError"

Missing == [missing |-> TRUE]

Invalid == [ok |-> FALSE, value |-> Missing]

Valid(v) == [ok |-> TRUE, value |-> v]

is_str(v) == "str" \in DOMAIN v

is_int(v) == "int" \in DOMAIN v

is_list(v) == "list" \in DOMAIN v

is_mapping(v) == "items" \in DOMAIN v

\* a dict with fixed keys: the keyword arguments of a model
is_dict(v) ==
    (DOMAIN v) \cap {"str", "int", "null", "list", "items", "missing"} = {}

\* the value given for a field, Missing when the input has no such key
field(raw, name) == IF name \in DOMAIN raw THEN raw[name] ELSE Missing

\* str.isdigit()
isdigit(s) == Len(s) > 0 /\ \A i \in 1..Len(s) : IsDigit(s[i])

\* int(s) of a str of decimal digits
RECURSIVE int_of_digits(_, _)
int_of_digits(s, acc) ==
    IF s = << >> THEN acc
    ELSE int_of_digits(Tail(s), 10 * acc + DigitValue[Head(s)])

\* the upper-case letter of a lower-case letter, any other character itself
upper_char(c) ==
    IF \E n \in 1..26 : LOWERCASE[n] = c
    THEN UPPERCASE[CHOOSE n \in 1..26 : LOWERCASE[n] = c]
    ELSE c

\* str.upper()
RECURSIVE upper(_)
upper(s) ==
    IF s = << >> THEN << >>
    ELSE <<upper_char(Head(s))>> \o upper(Tail(s))

\* a field of type str with min_length
str_type(v, min_length) ==
    IF is_str(v) /\ Len(v.str) >= min_length THEN Valid(v) ELSE Invalid

\* a field of type int with ge and le; of the strs only those of decimal
\* digits convert (the inputs hold no sign, blank, underscore or point)
int_type(v, ge, le) ==
    LET n == IF is_int(v) THEN v.int ELSE int_of_digits(v.str, 0)
    IN  IF (is_int(v) \/ (is_str(v) /\ isdigit(v.str))) /\ n >= ge /\ n <= le
        THEN Valid([int |-> n])
        ELSE Invalid

\* a field of type Optional[str] with a default
optional_str_type(v, default) ==
    IF v = Missing THEN Valid(default)
    ELSE IF v = JsonNull \/ is_str(v) THEN Valid(v)
    ELSE Invalid

\* post and response: str, min_length=1
DiscussionData(raw) ==
    LET post     == str_type(field(raw, "post"), 1)
        response == str_type(field(raw, "response"), 1)
    IN  IF is_dict(raw) /\ post.ok /\ response.ok
        THEN Valid([post |-> post.value, response |-> response.value])
        ELSE Invalid

PLACEHOLDERS ==
    { <<"F", "I", "L", "L", "_", "M", "E">>, <<"T", "O", "D", "O">>,
      <<"T", "B", "D">> }

\* the placeholders compared as written: not the code
validate_topic_id_as_written(v) ==
    IF v.str \in PLACEHOLDERS THEN Invalid ELSE Valid(v)

\* WeekConfig.validate_topic_id
validate_topic_id(v) ==
    IF upper(v.str) \in PLACEHOLDERS THEN Invalid ELSE Valid(v)

\* every element of a List[DiscussionData] validated
RECURSIVE each_DiscussionData(_)
each_DiscussionData(list) ==
    IF list = << >> THEN Valid(<< >>)
    ELSE LET first == DiscussionData(Head(list))
             rest  == each_DiscussionData(Tail(list))
         IN  IF first.ok /\ rest.ok
             THEN Valid(<<first.value>> \o rest.value)
             ELSE Invalid

\* discussion_data: List[DiscussionData], default_factory=list
discussion_data_type(v) ==
    IF v = Missing THEN Valid([list |-> << >>])
    ELSE IF ~is_list(v) THEN Invalid
    ELSE LET each == each_DiscussionData(v.list)
         IN  IF each.ok THEN Valid([list |-> each.value]) ELSE Invalid

WeekConfig(raw) ==
    LET typed_id == str_type(field(raw, "topic_id"), 1)
        topic_id == IF typed_id.ok THEN validate_topic_id(typed_id.value)
                    ELSE Invalid
        discussion_prompt == str_type(field(raw, "discussion_prompt"), 1)
        discussion_data   == discussion_data_type(field(raw, "discussion_data"))
    IN  IF is_dict(raw) /\ topic_id.ok /\ discussion_prompt.ok
           /\ discussion_data.ok
        THEN Valid([topic_id |-> topic_id.value,
                    discussion_prompt |-> discussion_prompt.value,
                    discussion_data |-> discussion_data.value])
        ELSE Invalid

\* every value of a Dict[str, WeekConfig] validated
RECURSIVE each_WeekConfig(_)
each_WeekConfig(q) ==
    IF q = << >> THEN Valid(<< >>)
    ELSE LET first == WeekConfig(Head(q)[2])
             rest  == each_WeekConfig(Tail(q))
         IN  IF first.ok /\ rest.ok
             THEN Valid(<< <<Head(q)[1], first.value>> >> \o rest.value)
             ELSE Invalid

\* CourseSchema.validate_date_format
validate_date_format(v) ==
    IF strptime(v.str, "%Y-%m-%d").exc = ValueError THEN Invalid ELSE Valid(v)

\* CourseSchema.validate_course_id
validate_course_id(v) == IF ~isdigit(v.str) THEN Invalid ELSE Valid(v)

\* weeks: Dict[str, WeekConfig]
weeks_type(v) ==
    IF ~is_mapping(v) THEN Invalid
    ELSE LET each == each_WeekConfig(v.items)
         IN  IF each.ok THEN Valid([items |-> each.value]) ELSE Invalid

UnnamedCourse == 
    [str |-> <<"U", "n", "n", "a", "m", "e", "d", " ",
               "C", "o", "u", "r", "s", "e">>]

CourseSchema(raw) ==
    LET typed_id   == str_type(field(raw, "course_id"), 1)
        course_id  == IF typed_id.ok THEN validate_course_id(typed_id.value)
                      ELSE Invalid
        typed_date == str_type(field(raw, "course_start_date"), 0)
        start      == IF typed_date.ok
                      THEN validate_date_format(typed_date.value)
                      ELSE Invalid
        name       == optional_str_type(field(raw, "name"), UnnamedCourse)
        weeks      == weeks_type(field(raw, "weeks"))
    IN  IF is_dict(raw) /\ course_id.ok /\ start.ok /\ name.ok /\ weeks.ok
        THEN Valid([course_id |-> course_id.value,
                    course_start_date |-> start.value,
                    name |-> name.value, weeks |-> weeks.value])
        ELSE Invalid

\* every value of a Dict[str, CourseSchema] validated
RECURSIVE each_CourseSchema(_)
each_CourseSchema(q) ==
    IF q = << >> THEN Valid(<< >>)
    ELSE LET first == CourseSchema(Head(q)[2])
             rest  == each_CourseSchema(Tail(q))
         IN  IF first.ok /\ rest.ok
             THEN Valid(<< <<Head(q)[1], first.value>> >> \o rest.value)
             ELSE Invalid

\* CoursesConfig.validate_courses_not_empty
validate_courses_not_empty(v) == IF v.items = << >> THEN Invalid ELSE Valid(v)

\* courses: Dict[str, CourseSchema]
courses_type(v) ==
    IF ~is_mapping(v) THEN Invalid
    ELSE LET each == each_CourseSchema(v.items)
         IN  IF each.ok THEN Valid([items |-> each.value]) ELSE Invalid

\* CoursesConfig(**config), which validate_courses_config returns
CoursesConfig(raw) ==
    LET typed   == courses_type(field(raw, "courses"))
        courses == IF typed.ok THEN validate_courses_not_empty(typed.value)
                   ELSE Invalid
    IN  IF courses.ok THEN Valid([courses |-> courses.value]) ELSE Invalid

\* week without its upper limit: not the code
AnnouncementSchema_no_le(raw) ==
    LET week_field == int_type(field(raw, "week"), 1, 99)
        title      == str_type(field(raw, "title"), 1)
        text       == str_type(field(raw, "content"), 1)
    IN  IF is_dict(raw) /\ week_field.ok /\ title.ok /\ text.ok
        THEN Valid([week |-> week_field.value.int, title |-> title.value,
                    content |-> text.value])
        ELSE Invalid

\* week: int, ge=1, le=8; title and content: str, min_length=1
AnnouncementSchema(raw) ==
    LET week_field == int_type(field(raw, "week"), 1, 8)
        title      == str_type(field(raw, "title"), 1)
        text       == str_type(field(raw, "content"), 1)
    IN  IF is_dict(raw) /\ week_field.ok /\ title.ok /\ text.ok
        THEN Valid([week |-> week_field.value.int, title |-> title.value,
                    content |-> text.value])
        ELSE Invalid

\* every element of a List[AnnouncementSchema] validated
RECURSIVE each_AnnouncementSchema(_)
each_AnnouncementSchema(list) ==
    IF list = << >> THEN Valid(<< >>)
    ELSE LET first == AnnouncementSchema(Head(list))
             rest  == each_AnnouncementSchema(Tail(list))
         IN  IF first.ok /\ rest.ok
             THEN Valid(<<first.value>> \o rest.value)
             ELSE Invalid

\* announcements: List[AnnouncementSchema], min_length=1
announcements_type(v) ==
    IF ~is_list(v) \/ Len(v.list) < 1 THEN Invalid
    ELSE LET each == each_AnnouncementSchema(v.list)
         IN  IF each.ok THEN Valid([list |-> each.value]) ELSE Invalid

\* AnnouncementsConfig(**config), which validate_announcements_config returns
AnnouncementsConfig(raw) ==
    LET list == announcements_type(field(raw, "announcements"))
    IN  IF list.ok THEN Valid([announcements |-> list.value]) ELSE Invalid

\* the input with one more key, or as it is when no value is given
with_field(raw, name, v) == IF v = Missing THEN raw ELSE dict_set(raw, name, v)

Str1(c) == [str |-> <<c>>]

EmptyStr == [str |-> << >>]

\* week: not given, null, ints in and out of 1..8, strs of digits, a word
WeekValues ==
    { Missing, JsonNull, [int |-> 0], [int |-> 1], [int |-> 8], [int |-> 9],
      Str1("3"), [str |-> <<"0", "8">>], Str1("9"), Str1("x") }

TitleValues == { Missing, EmptyStr, Str1("T"), Str1(" "), [int |-> 5] }

ContentValues == { Missing, EmptyStr, Str1("C") }

AnnouncementInputs ==
    { with_field(with_field(with_field(EmptyDict, "week", w), "title", t),
                 "content", c) :
        w \in WeekValues, t \in TitleValues, c \in ContentValues }

Announcement(w, t) == [week |-> w, title |-> t, content |-> Str1("C")]

\* the records of the lists: two that pass, one with week 9, one untitled
ListedAnnouncements ==
    { Announcement([int |-> 1], Str1("T")), Announcement(Str1("3"), Str1("T")),
      Announcement([int |-> 9], Str1("T")), Announcement([int |-> 1], EmptyStr) }

\* no 'announcements', null, or a list of at most MaxRecords records
AnnouncementsInputs ==
    { EmptyDict, [announcements |-> JsonNull] }
    \cup { [announcements |-> [list |-> q]] :
             q \in SeqsUpTo(ListedAnnouncements, MaxRecords) }

TopicIds ==
    { Missing, EmptyStr, Str1("5"), [int |-> 5],
      [str |-> <<"T", "O", "D", "O">>], [str |-> <<"t", "o", "d", "o">>],
      [str |-> <<"T", "b", "d">>],
      [str |-> <<"f", "i", "l", "l", "_", "m", "e">>],
      [str |-> <<"T", "O", "D", "O", "S">>] }

Prompts == { Missing, EmptyStr, Str1("P") }

Example(p, r) == [post |-> p, response |-> r]

DiscussionDataValues ==
    { Missing, JsonNull, [list |-> << >>],
      [list |-> <<Example(Str1("p"), Str1("r"))>>],
      [list |-> <<Example(EmptyStr, Str1("r"))>>],
      [list |-> <<Example(Str1("p"), Str1("r")), Example(Str1("p"), EmptyStr)>>],
      [list |-> <<[post |-> Str1("p")]>>] }

WeekInputs ==
    { with_field(with_field(with_field(EmptyDict, "topic_id", t),
                            "discussion_prompt", p), "discussion_data", e) :
        t \in TopicIds, p \in Prompts, e \in DiscussionDataValues }

Week(t, p, e) == [topic_id |-> t, discussion_prompt |-> p, discussion_data |-> e]

GoodWeek == Week(Str1("5"), Str1("P"), [list |-> << >>])

CourseIds ==
    { Missing, EmptyStr, [int |-> 12345],
      [str |-> <<"1", "2", "3", "4", "5">>],
      [str |-> <<"A", "B", "C", "1", "2", "3">>] }

CourseStartDates ==
    { Missing,
      [str |-> <<"2", "0", "2", "5", "-", "0", "9", "-", "0", "2">>],
      [str |-> <<"0", "9", "/", "0", "2", "/", "2", "0", "2", "5">>],
      [str |-> <<"2", "0", "2", "5", "-", "9", "-", "2">>],
      [str |-> <<"2", "0", "2", "5", "-", "0", "2", "-", "3", "0">>] }

Names == { Missing, JsonNull, Str1("N") }

\* weeks: not given, null, none, passing ones, one with a placeholder, one
\* with an example without text, one without prompt
WeeksInputs ==
    { Missing, JsonNull, NoItems,
      [items |-> << <<"1", GoodWeek>> >>],
      [items |-> << <<"1", GoodWeek>>,
                    <<"2", Week([str |-> <<"t", "b", "d">>], Str1("P"),
                                [list |-> << >>])>> >>],
      [items |-> << <<"1", Week(Str1("5"), Str1("P"),
                                [list |-> <<Example(EmptyStr, Str1("r"))>>])>> >>],
      [items |-> << <<"1", Week(Str1("5"), EmptyStr, [list |-> << >>])>> >>] }

CourseInputs ==
    { with_field(with_field(with_field(with_field(EmptyDict, "course_id", c),
                     "course_start_date", s), "name", n), "weeks", w) :
        c \in CourseIds, s \in CourseStartDates, n \in Names,
        w \in WeeksInputs }

Course(c, s, w) == [course_id |-> c, course_start_date |-> s, weeks |-> w]

\* the courses of the configs: two that pass, one with a course_id of
\* letters, one with an example without text
ConfiguredCourses ==
    LET id    == [str |-> <<"1", "2", "3", "4", "5">>]
        start == [str |-> <<"2", "0", "2", "5", "-", "0", "9", "-", "0", "2">>]
    IN  { Course(id, start, NoItems),
          Course(id, start, [items |-> << <<"1", GoodWeek>> >>]),
          Course(Str1("A"), start, NoItems),
          Course(id, start,
                 [items |-> << <<"1", Week(Str1("5"), Str1("P"),
                                 [list |-> <<Example(EmptyStr, Str1("r"))>>])>> >>]) }

RECURSIVE CoursesUpTo(_)
CoursesUpTo(n) ==
    IF n = 0 THEN { << >> }
    ELSE LET shorter == CoursesUpTo(n - 1)
         IN  shorter
             \cup { Append(q, <<key, c>>) :
                      q \in { p \in shorter : Len(p) = n - 1 },
                      key \in CourseKeys, c \in ConfiguredCourses }

\* no 'courses', null, or the courses of a file of at most MaxCourses
CoursesInputs ==
    { EmptyDict, [courses |-> JsonNull] }
    \cup { [courses |-> [items |-> q]] :
             q \in { p \in CoursesUpTo(MaxCourses) : DistinctKeys(p) } }

SchemasInit ==
    /\ data = EmptyDict
    /\ instance = Missing

\* Model(**data): the instance, or ValidationError
construct(name, raw, r) ==
    /\ pc = "idle"
    /\ data' = raw
    /\ instance' = r.value
    /\ raised' = IF r.ok THEN NoError ELSE ValidationError
    /\ pc' = IF r.ok THEN "returned" ELSE "raised"
    /\ module' = "schemas"
    /\ fn' = name
    /\ UNCHANGED beyond_schemas

construct_AnnouncementSchema ==
    \E raw \in AnnouncementInputs :
        construct("AnnouncementSchema", raw, AnnouncementSchema(raw))

validate_announcements_config ==
    \E raw \in AnnouncementsInputs :
        construct("AnnouncementsConfig", raw, AnnouncementsConfig(raw))

construct_WeekConfig ==
    \E raw \in WeekInputs : construct("WeekConfig", raw, WeekConfig(raw))

construct_CourseSchema ==
    \E raw \in CourseInputs : construct("CourseSchema", raw, CourseSchema(raw))

validate_courses_config ==
    \E raw \in CoursesInputs :
        construct("CoursesConfig", raw, CoursesConfig(raw))

SchemasNext ==
    \/ construct_AnnouncementSchema
    \/ validate_announcements_config
    \/ construct_WeekConfig
    \/ construct_CourseSchema
    \/ validate_courses_config

(***************************************************************************)
(* discussions.py, announcements.py and canvas_service.py: the two         *)
(* workflows and the browser session they drive.  A step of a workflow is  *)
(* one statement, or one run of statements that touch the same resource;   *)
(* the user may close the browser window between any two steps.            *)
(***************************************************************************)
FileNotFoundError == "FileNotFoundError"
ValidationError_of_file == "ValidationError"
PlaywrightError == "Error"
TargetClosedError == "TargetClosedError"
EOFError == "EOFError"

\* the text by which lines 100 and 124 of canvas_service.py know the error
TARGET_CLOSED == "Target page, context or browser has been closed"

\* str(e) of the error of a page operation: the API name, then the text
closed_message(api) == <<api, ": ", TARGET_CLOSED>>

other_message(api) == <<api, ": ", "Timeout 30000ms exceeded.">>

\* "Target page, context or browser has been closed" in str(e)
is_closed_error(msg) == \E i \in 1..Len(msg) : msg[i] = TARGET_CLOSED

\* the ways a page operation may end while the window is as w: done or
\* failed while it is open, the closed error once it is closed
page_outcomes(w) == IF w = "open" THEN {"done", "error"} ELSE {"closed"}

\* the exception and the message of a page operation that ended as o
page_error(o, api) ==
    IF o = "closed"
    THEN [exc |-> TargetClosedError, message |-> closed_message(api)]
    ELSE IF o = "error"
    THEN [exc |-> PlaywrightError, message |-> other_message(api)]
    ELSE [exc |-> NoError, message |-> << >>]

(***************************************************************************)
(* The inputs of a workflow.                                               *)
(***************************************************************************)
Credentials == {None, "", "teacher@example.com"}

Passwords == {None, "secret"}

\* Python's None as an argument that is a str or an int otherwise
NoArgument == JsonNull

\* not x for a selector
selector_given(x) ==
    /\ "null" \notin DOMAIN x
    /\ "str" \in DOMAIN x => x.str # << >>
    /\ "int" \in DOMAIN x => x.int # 0

WorkflowSelectors ==
    { NoArgument, [str |-> << >>], [str |-> <<"A">>], [str |-> <<"Z">>] }

\* week_id: None, or the week the caller names
WorkflowWeeks == { NoArgument, [int |-> 1], [int |-> 3] }

WorkflowStart == <<"2", "0", "2", "5", "-", "0", "9", "-", "0", "1">>

\* a courses.json that passes validate_courses_config: course A, started on
\* Monday 2025-09-01, with the data of week 1 and of week 2
ValidConfig ==
    [courses |->
       [items |->
          << << <<"A">>,
                [course_id |-> <<"1", "2", "3", "4", "5">>,
                 course_start_date |-> WorkflowStart,
                 weeks |->
                   [items |->
                      << << <<"1">>,
                            [topic_id |-> <<"7">>,
                             discussion_prompt |-> <<"Week 1">>] >>,
                         << <<"2">>,
                            [topic_id |-> <<"8">>,
                             discussion_prompt |-> <<"Week 2">>] >> >>]] >> >>]]

\* what load_courses_config finds: no file, a file the schema refuses, a
\* valid file
CourseFiles ==
    { [exc |-> FileNotFoundError, value |-> EmptyDict],
      [exc |-> ValidationError_of_file, value |-> EmptyDict],
      [exc |-> NoError, value |-> ValidConfig] }

\* datetime.now() when the week is calculated: the Sunday of week 2 and the
\* Monday of week 3 of the course
WorkflowNows ==
    { [year |-> 2025, month |-> 9, day |-> 14, second |-> 0],
      [year |-> 2025, month |-> 9, day |-> 15, second |-> 0] }

\* llm_provider as argparse and get_llm_provider give it: None or one of the
\* three names
WorkflowProviders == {None, "openai", "anthropic", "deepseek"}

\* os.getenv(name, '') of the three keys: no key set, the first alone, the
\* second and the third
KeyEnvs == { <<"", "", "">>, <<"sk-test", "", "">>, <<"", "sk-ant", "sk-ds">> }

\* the key the provider p needs
key_of(p, key1, key2, key3) ==
    IF p = "openai" THEN key1
    ELSE IF p = "anthropic" THEN key2
    ELSE IF p = "deepseek" THEN key3
    ELSE None

ENV_NAME ==
    [openai |-> "OPENAI_API_KEY", anthropic |-> "ANTHROPIC_API_KEY",
     deepseek |-> "DEEPSEEK_API_KEY"]

DISPLAY_NAME ==
    [openai |-> "OpenAI", anthropic |-> "Anthropic", deepseek |-> "DeepSeek"]

EnvKeyRequired(p) ==
    <<ENV_NAME[p], " environment variable is required when using ",
      DISPLAY_NAME[p], " provider">>

\* no key tested: not the code
provider_key_unchecked(p, key1, key2, key3) ==
    [exc |-> NoError, message |-> << >>]

\* lines 89-94 of discussions.py: the key of the provider is tested for the
\* three names, no other name is tested
provider_key_check(p, key1, key2, key3) ==
    IF p \in {"openai", "anthropic", "deepseek"}
       /\ ~truthy(key_of(p, key1, key2, key3))
    THEN [exc |-> ValueError, message |-> EnvKeyRequired(p)]
    ELSE [exc |-> NoError, message |-> << >>]

(***************************************************************************)
(* The state before a workflow is called.                                  *)
(***************************************************************************)
WorkflowInit ==
    /\ email = None
    /\ password = None
    /\ playwright = None
    /\ browser = None
    /\ context = None
    /\ page = None
    /\ window = "none"
    /\ released = << >>
    /\ authors = << >>
    /\ handled = << >>
    /\ success = FALSE
    /\ answer = << >>
    /\ stop = << >>
    /\ passes = 0
    /\ prompts = 0
    /\ loop_ends = << >>
    /\ clicked = "no"
    /\ attempted = << >>
    /\ successful_announcements = 0
    /\ failed_announcements = 0

key_vars == <<openai_key, anthropic_key, deepseek_key, available_providers>>

week_vars == <<course_start_date, current_date, current_week>>

list_vars == <<announcements, announcement_dates>>

\* the workflow raises exc with message msg
raise(exc, msg) ==
    /\ raised' = exc
    /\ message' = msg
    /\ pc' = "raised"

\* the workflow goes on at the position at
goto(at) ==
    /\ pc' = at
    /\ UNCHANGED <<raised, message>>

(***************************************************************************)
(* discussions.run_discussion_action, lines 45-104: the checks.            *)
(***************************************************************************)
\* lines 45-52: the call; without credentials or selector the function
\* returns
run_discussion_action ==
    /\ pc = "idle"
    /\ \E e \in Credentials, p \in Passwords, x \in WorkflowSelectors,
          n \in WorkflowWeeks, name \in WorkflowProviders :
        /\ email' = e
        /\ password' = p
        /\ course_selector' = x
        /\ week_id' = n
        /\ provider' = name
        /\ pc' = IF ~truthy(e) \/ ~truthy(p) \/ ~selector_given(x)
                 THEN "returned" ELSE "load"
    /\ module' = "discussions"
    /\ fn' = "run_discussion_action"
    /\ UNCHANGED <<raised, message, config, course, prompt, course_and_topic,
                   key_vars, week_vars, list_vars, session_vars,
                   discussion_vars, announcement_vars, main_vars,
                   beyond_workflow>>

\* lines 54-63: the file is loaded and the course looked up
load_and_find_course ==
    /\ pc = "load"
    /\ module = "discussions"
    /\ \E file \in CourseFiles :
        LET found == resolve_course(course_selector, file.value)
        IN  IF file.exc # NoError
            THEN /\ raise(file.exc, << >>)
                 /\ UNCHANGED <<config, course>>
            ELSE /\ config' = file.value
                 /\ course' = found.value
                 /\ IF found.exc # NoError
                    THEN raise(found.exc, found.message)
                    ELSE goto("week")
    /\ UNCHANGED <<module, fn, email, password, course_selector, week_id,
                   provider, prompt, course_and_topic, key_vars, week_vars,
                   list_vars, session_vars, discussion_vars,
                   announcement_vars, main_vars, beyond_workflow>>

StartDateNotFound(x) ==
    <<"Course start date not found for course ", py_str(x)>>

\* lines 65-72: the week is the one given, or the one calculated today
choose_week ==
    /\ pc = "week"
    /\ IF "null" \in DOMAIN week_id
       THEN LET s == get(course, "course_start_date", << >>)
                parsed == parse_start_date(s)
            IN  IF s = << >>
                THEN /\ raise(ValueError, StartDateNotFound(course_selector))
                     /\ UNCHANGED <<week_id, week_vars>>
                ELSE \E now \in WorkflowNows :
                       /\ course_start_date' = s
                       /\ current_date' = now
                       /\ IF parsed.exc # NoError
                          THEN /\ raise(parsed.exc, << >>)
                               /\ UNCHANGED <<week_id, current_week>>
                          ELSE /\ current_week' =
                                    calculate_current_week(parsed.value, now)
                               /\ week_id' = [int |-> current_week']
                               /\ goto("topic")
       ELSE /\ goto("topic")
            /\ UNCHANGED <<week_id, week_vars>>
    /\ UNCHANGED <<module, fn, email, password, course_selector, provider,
                   config, course, prompt, course_and_topic, key_vars,
                   list_vars, session_vars, discussion_vars,
                   announcement_vars, main_vars, beyond_workflow>>

\* lines 74-77: the topic of the week and its prompt
find_topic_and_prompt ==
    /\ pc = "topic"
    /\ LET r == resolve_course_and_topic("course_utils", course_selector,
                                         week_id.int, config)
       IN  /\ course_and_topic' = r.value
           /\ IF r.exc # NoError
              THEN /\ raise(r.exc, r.message)
                   /\ UNCHANGED prompt
              ELSE /\ prompt' = get_week_prompt(course_selector, week_id.int,
                                                config)
                   /\ goto("keys")
    /\ UNCHANGED <<module, fn, email, password, course_selector, week_id,
                   provider, config, course, key_vars, week_vars, list_vars,
                   session_vars, discussion_vars, announcement_vars,
                   main_vars, beyond_workflow>>

\* lines 79-104: the keys are read, the provider detected when none was
\* named, the key of the provider tested
choose_provider ==
    /\ pc = "keys"
    /\ \E env \in KeyEnvs :
        LET key1     == env[1]
            key2     == env[2]
            key3     == env[3]
            detected == _detect_llm_provider(key1, key2, key3)
            name     == IF provider = None THEN detected.value ELSE provider
            checked  == provider_key_check(name, key1, key2, key3)
        IN  /\ openai_key' = key1
            /\ anthropic_key' = key2
            /\ deepseek_key' = key3
            /\ IF provider = None
               THEN /\ available_providers' = detected.list
                    /\ provider' = detected.value
               ELSE UNCHANGED <<available_providers, provider>>
            /\ IF provider = None /\ detected.exc # NoError
               THEN raise(detected.exc, detected.message)
               ELSE IF checked.exc # NoError
               THEN raise(checked.exc, checked.message)
               ELSE goto("with")
    /\ UNCHANGED <<module, fn, email, password, course_selector, week_id,
                   config, course, prompt, course_and_topic, week_vars,
                   list_vars, session_vars, discussion_vars,
                   announcement_vars, main_vars, beyond_workflow>>

(***************************************************************************)
(* canvas_service.py: the session.  with CanvasService(...) as canvas      *)
(* calls __enter__, runs the body, and calls __exit__ when the body has    *)
(* ended or raised; an exception of __enter__ leaves the statement without *)
(* a call of __exit__.                                                     *)
(***************************************************************************)
check_vars ==
    <<email, password, course_selector, week_id, provider, config, course,
      prompt, course_and_topic, key_vars, week_vars, list_vars>>

\* the user closes the browser window while a workflow is using it
close_window ==
    /\ window = "open"
    /\ pc \notin {"idle", "returned", "raised"}
    /\ window' = "closed"
    /\ UNCHANGED <<control, message, check_vars, playwright, browser, context,
                   page, released, discussion_vars, announcement_vars,
                   main_vars, beyond_workflow>>

\* line 23: self.playwright = sync_playwright().start()
enter_start_playwright ==
    /\ pc = "with"
    /\ fn' = "CanvasService.__enter__"
    /\ \E o \in {"done", "error"} :
        IF o = "done"
        THEN /\ playwright' = "started"
             /\ goto("launch")
        ELSE /\ raise(PlaywrightError, other_message("sync_playwright"))
             /\ UNCHANGED playwright
    /\ UNCHANGED <<module, check_vars, browser, context, page, window,
                   released, discussion_vars, announcement_vars, main_vars,
                   beyond_workflow>>

\* line 24: self.browser = self.playwright.chromium.launch(...)
enter_launch_browser ==
    /\ pc = "launch"
    /\ \E o \in {"done", "error"} :
        IF o = "done"
        THEN /\ browser' = "open"
             /\ window' = "open"
             /\ goto("new_context")
        ELSE /\ raise(PlaywrightError, other_message("BrowserType.launch"))
             /\ UNCHANGED <<browser, window>>
    /\ UNCHANGED <<module, fn, check_vars, playwright, context, page,
                   released, discussion_vars, announcement_vars, main_vars,
                   beyond_workflow>>

\* line 25: self.context = self.browser.new_context()
enter_new_context ==
    /\ pc = "new_context"
    /\ \E o \in page_outcomes(window) :
        IF o = "done"
        THEN /\ context' = "open"
             /\ goto("new_page")
        ELSE /\ raise(page_error(o, "Browser.new_context").exc,
                      page_error(o, "Browser.new_context").message)
             /\ UNCHANGED context
    /\ UNCHANGED <<module, fn, check_vars, playwright, browser, page, window,
                   released, discussion_vars, announcement_vars, main_vars,
                   beyond_workflow>>

\* lines 26-27: self.page = self.context.new_page(); return self
enter_new_page ==
    /\ pc = "new_page"
    /\ \E o \in page_outcomes(window) :
        IF o = "done"
        THEN /\ page' = "open"
             /\ goto("login")
        ELSE /\ raise(page_error(o, "BrowserContext.new_page").exc,
                      page_error(o, "BrowserContext.new_page").message)
             /\ UNCHANGED page
    /\ UNCHANGED <<module, fn, check_vars, playwright, browser, context,
                   window, released, discussion_vars, announcement_vars,
                   main_vars, beyond_workflow>>

\* an exception leaves the body of the with statement: __exit__ is called
\* with it
leave_body(exc, msg) ==
    /\ raised' = exc
    /\ message' = msg
    /\ pc' = "exit_context"

\* a statement of the body that works on the page: it is done and the body
\* goes on at next, or it raises
page_statement(api, next) ==
    \E o \in page_outcomes(window) :
        IF o = "done"
        THEN goto(next)
        ELSE leave_body(page_error(o, api).exc, page_error(o, api).message)

\* lines 38-45: canvas.login(email, password)
login ==
    /\ pc = "login"
    /\ fn' = "CanvasService.login"
    /\ page_statement("Page.goto",
                      IF module = "discussions" THEN "navigate"
                      ELSE "schedule")
    /\ UNCHANGED <<module, check_vars, session_vars, discussion_vars,
                   announcement_vars, main_vars, beyond_workflow>>

\* lines 131-135: canvas.navigate_to_discussion(course_id, topic_id)
navigate_to_discussion ==
    /\ pc = "navigate"
    /\ fn' = "CanvasService.navigate_to_discussion"
    /\ page_statement("Page.goto", "loop")
    /\ UNCHANGED <<module, check_vars, session_vars, discussion_vars,
                   announcement_vars, main_vars, beyond_workflow>>

\* one close of __exit__: what is closed is written to self and to the
\* record of releases, or the close raises and __exit__ ends there
exit_statement(o, name, next) ==
    IF o = "done"
    THEN /\ released' = Append(released, name)
         /\ IF next = "end"
            THEN /\ pc' = IF raised # NoError THEN "raised" ELSE "returned"
                 /\ UNCHANGED <<raised, message>>
            ELSE goto(next)
    ELSE /\ raise(PlaywrightError, other_message(name))
         /\ UNCHANGED released

\* lines 31-32: if self.context: self.context.close()
exit_close_context ==
    /\ pc = "exit_context"
    /\ fn' = "CanvasService.__exit__"
    /\ \E o \in {"done", "error"} :
        /\ exit_statement(o, "context", "exit_browser")
        /\ context' = IF o = "done" THEN "closed" ELSE context
    /\ UNCHANGED <<module, check_vars, playwright, browser, page, window,
                   discussion_vars, announcement_vars, main_vars,
                   beyond_workflow>>

\* lines 33-34: if self.browser: self.browser.close()
exit_close_browser ==
    /\ pc = "exit_browser"
    /\ \E o \in {"done", "error"} :
        /\ exit_statement(o, "browser", "exit_playwright")
        /\ browser' = IF o = "done" THEN "closed" ELSE browser
        /\ window' = IF o = "done" THEN "closed" ELSE window
    /\ UNCHANGED <<module, fn, check_vars, playwright, context, page,
                   discussion_vars, announcement_vars, main_vars,
                   beyond_workflow>>

\* lines 35-36: if self.playwright: self.playwright.stop()
exit_stop_playwright ==
    /\ pc = "exit_playwright"
    /\ \E o \in {"done", "error"} :
        /\ exit_statement(o, "playwright", "end")
        /\ playwright' = IF o = "done" THEN "stopped" ELSE playwright
    /\ UNCHANGED <<module, fn, check_vars, browser, context, page, window,
                   discussion_vars, announcement_vars, main_vars,
                   beyond_workflow>>

(***************************************************************************)
(* canvas_service.py: the discussion loop.                                 *)
(***************************************************************************)
\* the authors of a page, in the order of the document
PageAuthors == [i \in 1..MaxAuthors |-> i]

\* what query_selector_all('[data-authorid]') may return: the first authors
\* of the page, none to MaxAuthors of them
AuthorLists == { SubSeq(PageAuthors, 1, n) : n \in 0..MaxAuthors }

\* what the user may type at the prompt
Answers == { <<"y">>, <<"Y">>, <<"n">>, << >> }

\* the ways the try block of one author may end: a reply typed, no reply
\* button, an error of the page or of the generator while the window is
\* open; the closed error once it is closed
author_outcomes(w) ==
    IF w = "open" THEN {"replied", "no reply button", "error"}
    ELSE {"closed"}

\* the author the for loop takes after it has taken those of done
next_author(list, done) == list[Len(done) + 1]

\* False returned for every error: not the code
returns_false_for_any(msg) == TRUE

\* lines 99-104: the handler of the for loop returns False for the closed
\* error and goes on after any other
returns_false(msg) == is_closed_error(msg)

\* run_discussion_loop ends as how: the first call returns to line 112 of
\* discussions.py, the second to the end of the with block
end_loop(how) ==
    /\ loop_ends' = Append(loop_ends, how)
    /\ pc' = IF Len(loop_ends) = 0 THEN "click" ELSE "exit_context"
    /\ UNCHANGED raised

\* lines 123-129: the handler of the while loop returns for the closed error
\* and breaks for any other; msg is str(e)
loop_except(msg) ==
    /\ end_loop(IF is_closed_error(msg) THEN "closed" ELSE "error")
    /\ UNCHANGED message

\* lines 110-112: a pass begins, the authors are read from the page
query_authors ==
    /\ pc = "loop"
    /\ fn' = "CanvasService.run_discussion_loop"
    /\ passes' = passes + 1
    /\ \E o \in page_outcomes(window) :
        IF o = "done"
        THEN /\ \E list \in AuthorLists : authors' = list
             /\ goto("generator")
             /\ UNCHANGED loop_ends
        ELSE /\ loop_except(page_error(o, "Page.query_selector_all").message)
             /\ UNCHANGED authors
    /\ UNCHANGED <<module, check_vars, session_vars, handled, success, answer,
                   stop, prompts, clicked, announcement_vars, main_vars,
                   beyond_workflow>>

GeneratorFailed == <<"Week data not found in course">>

\* lines 72-79: process_discussion_authors builds the generator; what it
\* raises reaches the handler of the while loop
make_generator ==
    /\ pc = "generator"
    /\ fn' = "CanvasService.process_discussion_authors"
    /\ \E o \in {"done", "error"} :
        IF o = "done"
        THEN /\ goto("authors")
             /\ UNCHANGED loop_ends
        ELSE loop_except(GeneratorFailed)
    /\ handled' = << >>
    /\ UNCHANGED <<module, check_vars, session_vars, authors, success, answer,
                   stop, passes, prompts, clicked, announcement_vars,
                   main_vars, beyond_workflow>>

\* lines 81-104: the for loop takes the next author
handle_author ==
    /\ pc = "authors"
    /\ Len(handled) < Len(authors)
    /\ \E o \in author_outcomes(window) :
        LET author == next_author(authors, handled)
            msg    == IF o = "closed" THEN closed_message("ElementHandle")
                      ELSE other_message("ElementHandle")
        IN  /\ handled' = Append(handled, <<author, o>>)
            /\ IF o \in {"closed", "error"} /\ returns_false(msg)
               THEN /\ success' = FALSE
                    /\ pc' = "alive"
               ELSE /\ pc' = "authors"
                    /\ UNCHANGED success
    /\ UNCHANGED <<module, fn, raised, message, check_vars, session_vars,
                   authors, answer, stop, passes, prompts, loop_ends, clicked,
                   announcement_vars, main_vars, beyond_workflow>>

\* line 106: every author was taken
return_true ==
    /\ pc = "authors"
    /\ Len(handled) = Len(authors)
    /\ success' = TRUE
    /\ pc' = "alive"
    /\ UNCHANGED <<module, fn, raised, message, check_vars, session_vars,
                   authors, handled, answer, stop, passes, prompts, loop_ends,
                   clicked, announcement_vars, main_vars, beyond_workflow>>

\* lines 57-64: reading page.url of an open window succeeds; of a closed
\* window it raises or not, as the library has it
_is_browser_alive(w) == IF w = "open" THEN {TRUE} ELSE {TRUE, FALSE}

\* lines 116-118: the loop returns when the authors were not all taken or
\* the page is not alive; the frame of process_discussion_authors is gone
check_closed ==
    /\ pc = "alive"
    /\ fn' = "CanvasService.run_discussion_loop"
    /\ \E alive \in _is_browser_alive(window) :
        IF ~success \/ ~alive
        THEN end_loop("closed")
        ELSE /\ goto("prompt")
             /\ UNCHANGED loop_ends
    /\ handled' = << >>
    /\ UNCHANGED <<module, message, check_vars, session_vars, authors,
                   success, answer, stop, passes, prompts, clicked,
                   announcement_vars, main_vars, beyond_workflow>>

\* any answer stops the loop: not the code
stops_on_any(s) == TRUE

\* stop == 'y'
stops(s) == s = <<"y">>

\* lines 120-122: the user is asked; the loop breaks on 'y' and runs
\* another pass otherwise (at most MaxPasses passes are followed)
ask_user ==
    /\ pc = "prompt"
    /\ prompts' = prompts + 1
    /\ \E a \in Answers :
        /\ answer' = a
        /\ stop' = lower(a)
        /\ IF stops(stop')
           THEN end_loop("stopped")
           ELSE /\ passes < MaxPasses
                /\ goto("loop")
                /\ UNCHANGED loop_ends
    /\ UNCHANGED <<module, fn, message, check_vars, session_vars, authors,
                   handled, success, passes, clicked, announcement_vars,
                   main_vars, beyond_workflow>>

\* line 120: input() raises at the end of the input
ask_user_end_of_input ==
    /\ pc = "prompt"
    /\ prompts' = prompts + 1
    /\ loop_except(<<"EOF when reading a line">>)
    /\ UNCHANGED <<module, fn, check_vars, session_vars, authors, handled,
                   success, answer, stop, passes, clicked, announcement_vars,
                   main_vars, beyond_workflow>>

\* the locals of a call of run_discussion_loop that has not begun its
\* first pass
new_loop_frame ==
    /\ authors' = << >>
    /\ handled' = << >>
    /\ success' = FALSE
    /\ answer' = << >>
    /\ stop' = << >>
    /\ passes' = 0
    /\ prompts' = 0

\* lines 112-114 of discussions.py: the button is clicked and the loop
\* called again
click_and_call_loop ==
    /\ pc = "click"
    /\ fn' = "run_discussion_action"
    /\ \E o \in page_outcomes(window) :
        IF o = "done"
        THEN /\ clicked' = "done"
             /\ new_loop_frame
             /\ goto("loop")
        ELSE /\ clicked' = "raised"
             /\ leave_body(page_error(o, "Locator.click").exc,
                           page_error(o, "Locator.click").message)
             /\ UNCHANGED <<authors, handled, success, answer, stop, passes,
                            prompts>>
    /\ UNCHANGED <<module, check_vars, session_vars, loop_ends,
                   announcement_vars, main_vars, beyond_workflow>>

(***************************************************************************)
(* announcements.py and canvas_service.py: the announcements.              *)
(***************************************************************************)
Notice(w) ==
    [week |-> w, title |-> "Announcement", content |-> "<p>Welcome</p>"]

\* the weeks of the announcements of a file: the first and the last
NoticeWeeks == {MIN_WEEK, MAX_WEEK}

\* what load_announcements_config finds: no file, a file the schema refuses,
\* a valid file of one to MaxNotices announcements, repeated weeks included
AnnouncementFiles ==
    { [exc |-> FileNotFoundError, value |-> << >>],
      [exc |-> ValidationError_of_file, value |-> << >>] }
    \cup { [exc |-> NoError, value |-> q] :
             q \in SeqsUpTo({ Notice(w) : w \in NoticeWeeks }, MaxNotices)
                     \ { << >> } }

\* calculate_announcement_dates(s, list) as a whole: the dict, or the
\* exception of the first record that raises
RECURSIVE announcement_dates_from(_, _, _)
announcement_dates_from(d, list, dict) ==
    IF list = << >> THEN [exc |-> NoError, value |-> dict]
    ELSE LET step == announcement_step(d, Head(list).week)
         IN  IF step.exc # NoError
             THEN [exc |-> step.exc, value |-> dict]
             ELSE announcement_dates_from(
                      d, Tail(list),
                      dict_set(dict, Head(list).week, step.formatted_date))

calculate_announcement_dates(s, list) ==
    LET parsed == parse_start_date(s)
    IN  IF parsed.exc # NoError
        THEN [exc |-> parsed.exc, value |-> << >>]
        ELSE announcement_dates_from(parsed.value, list, << >>)

\* announcement_dates.get(week), and whether it is truthy
scheduled_date_of(dict, w) ==
    IF w \in DOMAIN dict
    THEN [value |-> dict[w], truthy |-> dict[w] # << >>]
    ELSE [value |-> << >>, truthy |-> FALSE]

\* lines 22-37 of announcements.py: the call, both files, the course
schedule_announcements ==
    /\ pc = "idle"
    /\ \E e \in Credentials \ {None, ""}, p \in Passwords \ {None},
          x \in WorkflowSelectors \ {NoArgument},
          file \in CourseFiles, list \in AnnouncementFiles :
        LET found == resolve_course(x, file.value)
            s     == get(found.value, "course_start_date", << >>)
        IN  /\ email' = e
            /\ password' = p
            /\ course_selector' = x
            /\ IF file.exc # NoError
               THEN /\ raise(file.exc, << >>)
                    /\ UNCHANGED <<config, course, announcements,
                                   course_start_date>>
               ELSE /\ config' = file.value
                    /\ IF list.exc # NoError
                       THEN /\ raise(list.exc, << >>)
                            /\ UNCHANGED <<course, announcements,
                                           course_start_date>>
                       ELSE /\ announcements' = list.value
                            /\ course' = found.value
                            /\ IF found.exc # NoError
                               THEN /\ raise(found.exc, found.message)
                                    /\ UNCHANGED course_start_date
                               ELSE /\ course_start_date' = s
                                    /\ IF s = << >>
                                       THEN raise(ValueError,
                                                  StartDateNotFound(x))
                                       ELSE goto("dates")
    /\ module' = "announcements"
    /\ fn' = "schedule_announcements"
    /\ UNCHANGED <<week_id, provider, prompt, course_and_topic, key_vars,
                   current_date, current_week, announcement_dates,
                   session_vars, discussion_vars, announcement_vars,
                   main_vars, beyond_workflow>>

\* lines 39-41 of announcements.py: the date of every announcement
calculate_dates ==
    /\ pc = "dates"
    /\ LET r == calculate_announcement_dates(course_start_date, announcements)
       IN  /\ announcement_dates' = r.value
           /\ IF r.exc # NoError THEN raise(r.exc, << >>) ELSE goto("with")
    /\ UNCHANGED <<module, fn, email, password, course_selector, week_id,
                   provider, config, course, prompt, course_and_topic,
                   key_vars, week_vars, announcements, session_vars,
                   discussion_vars, announcement_vars, main_vars,
                   beyond_workflow>>

\* the ways the try block of create_announcement may end
create_outcomes == {"created", "failed"}

\* lines 174-188 and 137-167: the for loop takes the next announcement; the
\* page.goto of create_announcement stands before its try block, so what
\* it raises leaves schedule_announcements
schedule_next ==
    /\ pc = "schedule"
    /\ Len(attempted) < Len(announcements)
    /\ fn' = "CanvasService.schedule_announcements"
    /\ LET announcement   == announcements[Len(attempted) + 1]
           scheduled_date == scheduled_date_of(announcement_dates,
                                               announcement.week)
       IN  IF scheduled_date.truthy
           THEN \E o \in page_outcomes(window) :
                  IF o = "done"
                  THEN \E made \in create_outcomes :
                         /\ attempted' =
                              Append(attempted, <<announcement, made>>)
                         /\ successful_announcements' =
                              IF made = "created"
                              THEN successful_announcements + 1
                              ELSE successful_announcements
                         /\ failed_announcements' =
                              IF made = "created" THEN failed_announcements
                              ELSE failed_announcements + 1
                         /\ goto("schedule")
                  ELSE /\ attempted' =
                            Append(attempted, <<announcement, "raised">>)
                       /\ leave_body(page_error(o, "Page.goto").exc,
                                     page_error(o, "Page.goto").message)
                       /\ UNCHANGED <<successful_announcements,
                                      failed_announcements>>
           ELSE /\ attempted' = Append(attempted, <<announcement, "no date">>)
                /\ failed_announcements' = failed_announcements + 1
                /\ goto("schedule")
                /\ UNCHANGED successful_announcements
    /\ UNCHANGED <<module, check_vars, session_vars, discussion_vars,
                   main_vars, beyond_workflow>>

\* line 190, and lines 52-56 of announcements.py: the counts are returned
\* and printed, the with block ends
schedule_return ==
    /\ pc = "schedule"
    /\ Len(attempted) = Len(announcements)
    /\ fn' = "schedule_announcements"
    /\ pc' = "exit_context"
    /\ UNCHANGED <<module, raised, message, check_vars, session_vars,
                   discussion_vars, announcement_vars, main_vars,
                   beyond_workflow>>

WorkflowNext ==
    \/ run_discussion_action
    \/ load_and_find_course
    \/ choose_week
    \/ find_topic_and_prompt
    \/ choose_provider
    \/ schedule_announcements
    \/ calculate_dates
    \/ close_window
    \/ enter_start_playwright
    \/ enter_launch_browser
    \/ enter_new_context
    \/ enter_new_page
    \/ login
    \/ navigate_to_discussion
    \/ query_authors
    \/ make_generator
    \/ handle_author
    \/ return_true
    \/ check_closed
    \/ ask_user
    \/ ask_user_end_of_input
    \/ click_and_call_loop
    \/ schedule_next
    \/ schedule_return
    \/ exit_close_context
    \/ exit_close_browser
    \/ exit_stop_playwright

(***************************************************************************)
(* main.py: the flag and the monitor thread.                               *)
(***************************************************************************)
MainInit ==
    /\ browser_closed = FALSE
    /\ monitor = "none"
    /\ other_chrome = FALSE
    /\ signalled = FALSE
    /\ reported = FALSE

SystemExit == "SystemExit"

\* the statements of the body of the with block
BodyPositions ==
    {"login", "navigate", "loop", "generator", "authors", "alive", "prompt",
     "click", "schedule"}

\* a Chrome or Chromium process is running: the action's browser while its
\* window is open, or another one
chrome_running(w, other) == w = "open" \/ other

\* lines 269-302 and 318-344: an action of the menu starts the monitor
\* thread and installs the signal handlers; another Chrome is running on
\* the machine, or none is
start_monitor ==
    /\ pc = "idle"
    /\ monitor = "none"
    /\ monitor' = "check"
    /\ \E other \in BOOLEAN : other_chrome' = other
    /\ UNCHANGED <<control, message, check_vars, session_vars, discussion_vars, announcement_vars,
                   browser_closed, signalled, reported, beyond_workflow>>

\* the action, called by main.py with the credentials of the environment
\* (lines 276 and 325 let no empty one through), takes one of its steps
workflow_step ==
    /\ monitor # "none"
    /\ WorkflowNext
    /\ truthy(email')
    /\ truthy(password')

\* lines 50-61: the thread looks for a Chrome or Chromium process; when it
\* finds none it sets the flag and ends
monitor_check ==
    /\ monitor = "check"
    /\ pc \notin {"returned", "handled", "exited"}
    /\ IF browser_closed
       THEN /\ monitor' = "ended"
            /\ UNCHANGED browser_closed
       ELSE IF chrome_running(window, other_chrome)
       THEN /\ monitor' = "sleep"
            /\ UNCHANGED browser_closed
       ELSE /\ browser_closed' = TRUE
            /\ monitor' = "ended"
    /\ UNCHANGED <<control, message, check_vars, session_vars, discussion_vars, announcement_vars,
                   other_chrome, signalled, reported, beyond_workflow>>

\* line 90: time.sleep(2) is over
monitor_wake ==
    /\ monitor = "sleep"
    /\ pc \notin {"returned", "handled", "exited"}
    /\ monitor' = "check"
    /\ UNCHANGED <<control, message, check_vars, session_vars, discussion_vars, announcement_vars,
                   browser_closed, other_chrome, signalled, reported,
                   beyond_workflow>>

\* lines 28-34: SIGINT or SIGTERM arrives while the action runs; the handler
\* sets the flag and raises SystemExit in the main thread, which leaves the
\* with block through __exit__ when it is in its body
signal_handler ==
    /\ monitor # "none"
    /\ ~signalled
    /\ pc \notin {"returned", "raised", "handled", "exited"}
    /\ browser_closed' = TRUE
    /\ signalled' = TRUE
    /\ raised' = SystemExit
    /\ pc' = IF pc \in BodyPositions THEN "exit_context" ELSE "exited"
    /\ UNCHANGED <<module, fn, message, check_vars, session_vars, discussion_vars, announcement_vars, monitor,
                   other_chrome, reported, beyond_workflow>>

\* SystemExit has left the action: the process exits
exit_process ==
    /\ monitor # "none"
    /\ pc = "raised"
    /\ raised = SystemExit
    /\ pc' = "exited"
    /\ UNCHANGED <<module, fn, raised, message, check_vars, session_vars, discussion_vars, announcement_vars,
                   main_vars, beyond_workflow>>

\* lines 312-315 and 348-351: the exception of the action is printed unless
\* the flag is set
except_exception ==
    /\ monitor # "none"
    /\ pc = "raised"
    /\ raised # SystemExit
    /\ reported' = ~browser_closed
    /\ pc' = "handled"
    /\ UNCHANGED <<module, fn, raised, message, check_vars, session_vars, discussion_vars, announcement_vars,
                   browser_closed, monitor, other_chrome, signalled,
                   beyond_workflow>>

MainNext ==
    \/ start_monitor
    \/ workflow_step
    \/ monitor_check
    \/ monitor_wake
    \/ signal_handler
    \/ exit_process
    \/ except_exception

(***************************************************************************)
(* The specifications: one call of a date function, calls of the date      *)
(* functions one after the other, one call of the selector, of a course     *)
(* lookup, of a provider function, of a schema.                            *)
(***************************************************************************)
vars == <<date_vars, caller_vars, beyond_dates>>

Init == DatesInit /\ SelectorInit /\ CoursesInit /\ LLMInit
        /\ SchemasInit /\ WorkflowInit /\ MainInit

Next == DatesNext

Spec == Init /\ [][Next]_vars

SpecCalls == Init /\ [][CallsNext]_vars

SpecSelector == Init /\ [][SelectorNext]_vars

SpecCourses == Init /\ [][CoursesNext]_vars

SpecLLM == Init /\ [][LLMNext]_vars

SpecSchemas == Init /\ [][SchemasNext]_vars

SpecWorkflow == Init /\ [][WorkflowNext]_vars

SpecMain == Init /\ [][MainNext]_vars

(***************************************************************************)
(* Properties of the week resolver.  A day is named by its ordinal; day 1  *)
(* (0001-01-01) is a Monday, so the Mondays are the ordinals n with        *)
(* n % 7 = 1.                                                              *)
(***************************************************************************)
ReturnedWeek == fn = "calculate_current_week" /\ pc = "returned"

IsMondayOrdinal(n) == n % 7 = 1

\* Monday = 0 ... Sunday = 6
WeekdayOfOrdinal(n) == (n - 1) % 7

\* M(d): the Monday on or before day n
MondayOnOrBefore(n) == CHOOSE j \in (n - 6)..n : IsMondayOrdinal(j)

ClampTo1to8(x) == IF x < 1 THEN 1 ELSE IF x > 8 THEN 8 ELSE x

\* the week the called module's resolver gives for start date d and today c
WeekFor(d, c) ==
    IF module = "course_utils" THEN calculate_current_week(d, c)
    ELSE utils_calculate_current_week(d, c)

CalledWeekFor(d) ==
    fn = "calculate_current_week" /\ course_start_date = IsoString(d)

\* C1: for every start date and every today, calculate_current_week returns
\* an integer w with 1 <= w <= 8.
C1_WeekInRange ==
    /\ ReturnedWeek => current_week \in 1..8
    /\ \A d \in StartDays : CalledWeekFor(d) => ReturnedWeek

\* today lies more than two weeks before the start date: the week before
\* clamping is below 1
C1_Witness ==
    /\ ReturnedWeek
    /\ module = "course_utils"
    /\ toordinal(current_date) < toordinal(start_date) - 14
    /\ current_week = 1

\* C2: the returned week is clamp(floor((M(today) - M(start)) / 7) + 1, 1, 8)
\* with M(d) the Monday on or before d; it is computed from the day of today
\* alone, so the time of day does not change it.
C2_WeekFormula ==
    \A d \in StartDays :
        CalledWeekFor(d) =>
            /\ ReturnedWeek
            /\ current_week =
                 ClampTo1to8(((MondayOnOrBefore(toordinal(current_date))
                               - MondayOnOrBefore(toordinal(d))) \div 7) + 1)

\* a week strictly inside the range, late on a day that is no Monday, for a
\* start date that is no Monday
C2_Witness ==
    /\ ReturnedWeek
    /\ module = "course_utils"
    /\ current_week = 4
    /\ current_date.second = 86399
    /\ ~IsMondayOrdinal(toordinal(current_date))
    /\ ~IsMondayOrdinal(toordinal(start_date))

C4_StartDayIsWeekOne ==
    \A d \in StartDays :
        (CalledWeekFor(d) /\ [current_date EXCEPT !.second = 0] = d) =>
            ReturnedWeek /\ current_week = 1

\* the start date is a Sunday and today is that Sunday
C4_Witness ==
    /\ ReturnedWeek
    /\ module = "course_utils"
    /\ start_date = [current_date EXCEPT !.second = 0]
    /\ WeekdayOfOrdinal(toordinal(start_date)) = 6
    /\ current_week = 1

\* today is more than 56 days after the start date (midnight of the start day)
MoreThan56DaysAfter(d, c) ==
    \/ toordinal(c) - toordinal(d) > 56
    \/ toordinal(c) - toordinal(d) = 56 /\ c.second > 0

\* C5: a start date more than 8 weeks (56 days) before today gives 8; a start
\* date after today gives 1.
C5_OldStartIsEightFutureStartIsOne ==
    \A d \in StartDays :
        CalledWeekFor(d) =>
            /\ MoreThan56DaysAfter(d, current_date) => current_week = 8
            /\ toordinal(d) > toordinal(current_date) => current_week = 1

\* the start date is 56 days and some hours before today
C5_Witness ==
    /\ ReturnedWeek
    /\ module = "course_utils"
    /\ toordinal(current_date) - toordinal(start_date) = 56
    /\ current_date.second > 0
    /\ current_week = 8

(***************************************************************************)
(* Properties of the announcement date calculator.                         *)
(***************************************************************************)
CalledDates == fn = "calculate_announcement_dates"

\* the loop has run idx >= 1 iterations and the last one raised nothing: the
\* loop locals are those of record idx
AfterIteration == CalledDates /\ pc \in {"loop", "returned"} /\ idx >= 1

\* the Monday at most 3 days from day n
NearestMondayTo(n) == CHOOSE j \in (n - 3)..(n + 3) : IsMondayOrdinal(j)

\* raw = start + (w - 1) weeks, as a day
RawDay(w) == toordinal(start_date) + 7 * (w - 1)

\* C6: each record's week w is mapped to the Monday nearest to
\* raw = start + (w-1) weeks: raw itself on a Monday, 1 to 3 days back from
\* Tuesday to Thursday, 1 to 3 days on from Friday to Sunday.
C6_NearestMonday ==
    /\ \A d \in StartDays :
         (CalledDates /\ course_start_date = IsoString(d)) =>
             pc # "raised" /\ start_date = d
    /\ AfterIteration =>
         LET w   == announcements[idx].week
             raw == RawDay(w)
             wd  == WeekdayOfOrdinal(raw)
             r   == toordinal(announcement_date)
         IN  /\ week = w
             /\ IsMondayOrdinal(r)
             /\ r - raw \in (-3)..3
             /\ wd = 0 => r = raw
             /\ wd \in 1..3 => r = raw - wd
             /\ wd \in 4..6 => r = raw + (7 - wd)
             /\ announcement_date.second = 0

\* raw is a Friday: the date moves 3 days on
C6_Witness ==
    /\ AfterIteration
    /\ module = "course_utils"
    /\ WeekdayOfOrdinal(RawDay(week)) = 4
    /\ toordinal(announcement_date) = RawDay(week) + 3

\* f is "<full month name> <2-digit day> <4-digit year>" of the date dt
WrittenAs(f, dt) ==
    LET n == Len(f)
    IN  /\ n = Len(MONTH_NAME[dt.month]) + 8
        /\ SubSeq(f, 1, n - 8) = MONTH_NAME[dt.month]
        /\ f[n - 7] = " "
        /\ f[n - 4] = " "
        /\ \A j \in {n - 6, n - 5, n - 3, n - 2, n - 1, n} : IsDigit(f[j])
        /\ 10 * DigitValue[f[n - 6]] + DigitValue[f[n - 5]] = dt.day
        /\ 1000 * DigitValue[f[n - 3]] + 100 * DigitValue[f[n - 2]]
             + 10 * DigitValue[f[n - 1]] + DigitValue[f[n]] = dt.year

September_01_2025 ==
    <<"S", "e", "p", "t", "e", "m", "b", "e", "r", " ", "0", "1", " ",
      "2", "0", "2", "5">>

September_08_2025 ==
    <<"S", "e", "p", "t", "e", "m", "b", "e", "r", " ", "0", "8", " ",
      "2", "0", "2", "5">>

\* C7: each value of the date map is the rounded Monday written as full month
\* name, two-digit day, four-digit year, single spaces between; for start
\* date 2025-09-02 week 1 maps to "September 01 2025", week 2 to
\* "September 08 2025".
C7_FormattedMonday ==
    CalledDates =>
        /\ \A w \in DOMAIN announcement_dates :
             WrittenAs(announcement_dates[w],
                       fromordinal(NearestMondayTo(RawDay(w)), 0))
        /\ AfterIteration =>
             /\ WrittenAs(formatted_date, announcement_date)
             /\ announcement_dates[week] = formatted_date
        /\ course_start_date = <<"2", "0", "2", "5", "-", "0", "9", "-", "0", "2">>
           => /\ 1 \in DOMAIN announcement_dates
                   => announcement_dates[1] = September_01_2025
              /\ 2 \in DOMAIN announcement_dates
                   => announcement_dates[2] = September_08_2025

C7_Witness ==
    /\ CalledDates
    /\ pc = "returned"
    /\ module = "course_utils"
    /\ course_start_date = <<"2", "0", "2", "5", "-", "0", "9", "-", "0", "2">>
    /\ DOMAIN announcement_dates = {1, 2}
    /\ announcement_dates[1] = September_01_2025
    /\ announcement_dates[2] = September_08_2025

\* the weeks of the first n records
WeeksOfFirst(n) == { announcements[i].week : i \in 1..n }

\* the position of the last record with week w
LastRecordWith(w) ==
    CHOOSE i \in 1..Len(announcements) :
        /\ announcements[i].week = w
        /\ \A j \in (i + 1)..Len(announcements) : announcements[j].week # w

\* the string the called module's loop body computes for a record
ValueComputedFor(record) ==
    IF module = "course_utils"
    THEN announcement_step(start_date, record.week).formatted_date
    ELSE utils_announcement_step(start_date, record.week).formatted_date

\* C8: the keys of the returned map are the week numbers of the records, one
\* entry per distinct week (N records with N distinct weeks give N entries);
\* an entry holds the value computed for the last record with its week.
C8_KeysAreWeeksLastWins ==
    /\ (CalledDates /\ pc \in {"loop", "returned"}) =>
         DOMAIN announcement_dates = WeeksOfFirst(idx)
    /\ AfterIteration => announcement_dates[week] = formatted_date
    /\ (CalledDates /\ pc = "returned") =>
         /\ idx = Len(announcements)
         /\ DOMAIN announcement_dates = WeeksOfFirst(Len(announcements))
         /\ Cardinality(DOMAIN announcement_dates)
              = Cardinality(WeeksOfFirst(Len(announcements)))
         /\ (\A i, j \in 1..Len(announcements) :
                i # j => announcements[i].week # announcements[j].week)
              => Cardinality(DOMAIN announcement_dates) = Len(announcements)
         /\ \A w \in DOMAIN announcement_dates :
              announcement_dates[w]
                = ValueComputedFor(announcements[LastRecordWith(w)])

\* two records, two distinct weeks, two entries
C8_Witness ==
    /\ CalledDates
    /\ pc = "returned"
    /\ module = "course_utils"
    /\ Len(announcements) = 2
    /\ announcements[1].week # announcements[2].week
    /\ Cardinality(DOMAIN announcement_dates) = 2

\* C9: no range check on week: a record with a week outside 1..8 raises no
\* error and is mapped to the Monday nearest to start + (week-1) weeks like
\* any other record.
C9_NoWeekRangeCheck ==
    /\ (CalledDates /\ pc = "raised") => idx = 0
    /\ (AfterIteration /\ week \notin 1..8) =>
         /\ toordinal(announcement_date) = NearestMondayTo(RawDay(week))
         /\ week \in DOMAIN announcement_dates
         /\ WrittenAs(announcement_dates[week], announcement_date)
    /\ (CalledDates /\ pc = "returned") =>
         \A i \in 1..Len(announcements) :
             announcements[i].week \in DOMAIN announcement_dates

\* weeks 9 and -1 in one list, both mapped
C9_Witness ==
    /\ CalledDates
    /\ pc = "returned"
    /\ module = "course_utils"
    /\ Len(announcements) = 2
    /\ announcements[1].week = 9
    /\ announcements[2].week = -1
    /\ DOMAIN announcement_dates = {9, -1}

(***************************************************************************)
(* Properties of the parsing of the start date.                            *)
(***************************************************************************)
\* the number written by the digits of s at positions p .. q
NumberAt(s, p, q) ==
    LET RECURSIVE value(_)
        value(j) == IF j < p THEN 0 ELSE 10 * value(j - 1) + DigitValue[s[j]]
    IN  value(q)

DigitsAt(s, p, q) == \A j \in p..q : IsDigit(CharAt(s, j))

\* year y, month m, day d name a day of the calendar
IsCalendarDay(y, m, d) ==
    y >= 1 /\ m \in 1..12 /\ d >= 1 /\ d <= days_in_month(y, m)

\* s is a date written YYYY-MM-DD: four digits, two digits, two digits,
\* hyphens between, naming a day of the calendar
WellFormedYMD(s) ==
    /\ Len(s) = 10
    /\ DigitsAt(s, 1, 4) /\ s[5] = "-" /\ DigitsAt(s, 6, 7) /\ s[8] = "-"
    /\ DigitsAt(s, 9, 10)
    /\ IsCalendarDay(NumberAt(s, 1, 4), NumberAt(s, 6, 7), NumberAt(s, 9, 10))

\* s is a date as strptime takes it for %Y-%m-%d: four digits, a month of one
\* or two digits, a day of one or two digits or of a blank and a digit,
\* hyphens between, naming a day of the calendar
TakenByStrptime(s) ==
    \E mlen \in {1, 2}, dlen \in {1, 2} :
        LET mp == 6
            dp == 7 + mlen
            blank == dlen = 2 /\ CharAt(s, dp) = " "
        IN  /\ Len(s) = 6 + mlen + dlen
            /\ DigitsAt(s, 1, 4) /\ s[5] = "-"
            /\ DigitsAt(s, mp, mp + mlen - 1) /\ s[mp + mlen] = "-"
            /\ IF blank THEN IsDigit(s[dp + 1])
               ELSE DigitsAt(s, dp, dp + dlen - 1)
            /\ mlen = 1 => s[mp] # "0"
            /\ (dlen = 1 \/ blank) => s[dp + dlen - 1] # "0"
            /\ IsCalendarDay(NumberAt(s, 1, 4),
                             NumberAt(s, mp, mp + mlen - 1),
                             IF blank THEN DigitValue[s[dp + 1]]
                             ELSE NumberAt(s, dp, dp + dlen - 1))

\* the call ended with the parse error and produced nothing
FailedBeforeAnyResult ==
    /\ pc = "raised"
    /\ raised = ValueError
    /\ current_week = None
    /\ idx = 0
    /\ announcement_dates = << >>

\* C10 as claimed: a start date string that is not a well-formed YYYY-MM-DD
\* date makes both functions fail with a parse error before any result is
\* produced.
C10_Original ==
    (fn # None /\ ~WellFormedYMD(course_start_date)) => FailedBeforeAnyResult

\* C10 as amended: a start date string that strptime does not take for
\* %Y-%m-%d makes both functions fail with ValueError before any result is
\* produced, whatever the records are; a string strptime takes, a month or a
\* day written without its leading zero included, is parsed.
C10_RejectedStartDateRaises ==
    fn # None =>
        /\ ~TakenByStrptime(course_start_date) => FailedBeforeAnyResult
        /\ TakenByStrptime(course_start_date) => ~(pc = "raised" /\ idx = 0)
        /\ WellFormedYMD(course_start_date) => TakenByStrptime(course_start_date)

\* 30 February with two records: nothing is handled, no map is returned
C10_Witness ==
    /\ CalledDates
    /\ module = "course_utils"
    /\ course_start_date = <<"2", "0", "2", "5", "-", "0", "2", "-", "3", "0">>
    /\ Len(announcements) = 2
    /\ FailedBeforeAnyResult

(***************************************************************************)
(* Properties of repeated calls of the date functions.                     *)
(***************************************************************************)
\* the finished call has the function, the module and the arguments of the
\* call that was kept, and for calculate_current_week the same today
SameInputsAsKept ==
    /\ kept_call # << >>
    /\ CallFinished
    /\ kept_call[1].module = module
    /\ kept_call[1].fn = fn
    /\ kept_call[1].course_start_date = passed.course_start_date
    /\ kept_call[1].announcements = passed.announcements
    /\ kept_call[1].today = TodayOfCall

\* C11: calculate_current_week (for a fixed today) and
\* calculate_announcement_dates give the same outcome for the same arguments,
\* whatever calls were made before and in between, and the arguments are at
\* every step of a call what the caller passed.
C11_SameInputsSameOutcome ==
    /\ SameInputsAsKept => OutcomeOfCall = kept_call[1].outcome
    /\ fn # None =>
         /\ course_start_date = passed.course_start_date
         /\ announcements = passed.announcements

\* a map of two dates returned again after another call in between
C11_Witness ==
    /\ SameInputsAsKept
    /\ calls_since = 2
    /\ fn = "calculate_announcement_dates"
    /\ pc = "returned"
    /\ module = "course_utils"
    /\ Len(announcements) = 2
    /\ DOMAIN announcement_dates = {1, 2}
    /\ OutcomeOfCall = kept_call[1].outcome

(***************************************************************************)
(* Properties of the few-shot example selector.                            *)
(***************************************************************************)
SelectedFewShots == fn = "_select_few_shots" /\ pc = "returned"

\* the positions of the pool each entry returned can have come from
PositionsOfFewShots ==
    { f \in [1..Len(few_shots) -> 1..Len(examples)] :
        /\ \A i \in 1..Len(few_shots) : few_shots[i] = examples[f[i]]
        /\ \A i, j \in 1..Len(few_shots) : i # j => f[i] # f[j] }

\* C12: for every query, every pool and every k >= 0 the selector returns
\* exactly min(k, pool size) entries, each an entry of the pool, no pool
\* position used twice; an empty pool gives an empty sequence and no error.
C12_ReturnsMinKPoolEntries ==
    /\ fn = "_select_few_shots" => pc = "returned" /\ raised = NoError
    /\ (SelectedFewShots /\ k >= 0) =>
         /\ Len(few_shots) = (IF k < Len(examples) THEN k ELSE Len(examples))
         /\ PositionsOfFewShots # {}
    /\ (SelectedFewShots /\ examples = << >>) => few_shots = << >>

\* two of three examples are returned
C12_Witness ==
    /\ SelectedFewShots
    /\ Len(examples) = 3
    /\ k = 2
    /\ Len(few_shots) = 2
    /\ few_shots[1] # few_shots[2]

\* the score of a pool entry for the content of the call
ScoreOf(entry) == score(content, entry[1])

\* the position of an entry in the pool (the responses tell the entries apart)
PoolPosition(entry) == CHOOSE p \in 1..Len(examples) : examples[p] = entry

NotReturned ==
    { p \in 1..Len(examples) :
        \A i \in 1..Len(few_shots) : few_shots[i] # examples[p] }

\* C13: the entries returned descend by score, entries of equal score keep
\* their pool order, no entry left out scores higher than an entry returned,
\* and with k >= pool size the whole pool is returned in that order.
C13_DescendingStableTopK ==
    SelectedFewShots =>
        /\ \A i, j \in 1..Len(few_shots) :
             i < j =>
                /\ ~less_than(ScoreOf(few_shots[i]), ScoreOf(few_shots[j]))
                /\ ~less_than(ScoreOf(few_shots[j]), ScoreOf(few_shots[i]))
                     => PoolPosition(few_shots[i]) < PoolPosition(few_shots[j])
        /\ \A p \in NotReturned, i \in 1..Len(few_shots) :
             ~less_than(ScoreOf(few_shots[i]), ScoreOf(examples[p]))
        /\ k >= Len(examples) =>
             /\ Len(few_shots) = Len(examples)
             /\ NotReturned = {}

\* for the content "ab" the posts "ba", "ab", "AB" come back as "ab", "AB",
\* the two of score 1 in their pool order, and "ba" is left out
C13_Witness ==
    /\ SelectedFewShots
    /\ content = <<"a", "b">>
    /\ k = 2
    /\ examples = << <<<<"b", "a">>, ResponseAt(1)>>,
                     <<<<"a", "b">>, ResponseAt(2)>>,
                     <<<<"A", "B">>, ResponseAt(3)>> >>
    /\ few_shots = << <<<<"a", "b">>, ResponseAt(2)>>,
                      <<<<"A", "B">>, ResponseAt(3)>> >>

(***************************************************************************)
(* Properties of resolve_course and get_week_prompt.                       *)
(***************************************************************************)
CalledResolveCourse == fn = "resolve_course"

\* the courses of the config, {} without 'courses'
CoursesOfConfig ==
    IF "courses" \in DOMAIN config THEN config.courses.items ELSE << >>

\* the selector is a key of the courses
SelectorIsKey ==
    /\ "str" \in DOMAIN course_selector
    /\ \E i \in 1..Len(CoursesOfConfig) :
         CoursesOfConfig[i][1] = course_selector.str

\* the selector written as a string
SelectorAsString ==
    IF "int" \in DOMAIN course_selector
    THEN int_str(course_selector.int) ELSE course_selector.str

\* the positions of the courses whose course_id is the selector as a string
PositionsWithCourseId ==
    { i \in 1..Len(CoursesOfConfig) :
        /\ "course_id" \in DOMAIN CoursesOfConfig[i][2]
        /\ CoursesOfConfig[i][2].course_id = SelectorAsString }

RaisedNotFound ==
    /\ pc = "raised"
    /\ raised = ValueError
    /\ \E i \in 1..Len(message) : message[i] = "' not found in courses.json"

\* C14: resolve_course returns the course stored under the selector when the
\* selector is a course key (a key match comes before a course_id match);
\* otherwise the first course whose course_id equals the selector as a
\* string; when neither exists it raises ValueError with a 'not found'
\* message.
C14_KeyThenCourseIdElseNotFound ==
    CalledResolveCourse =>
        IF SelectorIsKey
        THEN /\ pc = "returned"
             /\ \E i \in 1..Len(CoursesOfConfig) :
                  /\ CoursesOfConfig[i][1] = course_selector.str
                  /\ course = CoursesOfConfig[i][2]
        ELSE IF PositionsWithCourseId # {}
        THEN /\ pc = "returned"
             /\ \E i \in PositionsWithCourseId :
                  /\ course = CoursesOfConfig[i][2]
                  /\ \A j \in PositionsWithCourseId : i <= j
        ELSE RaisedNotFound

CalledGetWeekPrompt == fn = "get_week_prompt"

\* the course stored under the selector, {} when the selector is no key
CourseUnderSelector ==
    IF SelectorIsKey
    THEN CoursesOfConfig[CHOOSE i \in 1..Len(CoursesOfConfig) :
                            CoursesOfConfig[i][1] = course_selector.str][2]
    ELSE EmptyDict

\* the value of 'weeks' of that course, an empty mapping when it has none
WeeksOfCourse ==
    IF "weeks" \in DOMAIN CourseUnderSelector
    THEN CourseUnderSelector.weeks ELSE NoItems

WeeksIsMapping == "items" \in DOMAIN WeeksOfCourse

\* the requested week as the key of a week: "1", "99", "-1"
RequestedWeekKey ==
    IF week_id < 0 THEN <<"-">> \o decimal(-week_id) ELSE decimal(week_id)

\* the data stored for the requested week, {} when there is none
DataOfWeek ==
    IF /\ WeeksIsMapping
       /\ \E i \in 1..Len(WeeksOfCourse.items) :
            WeeksOfCourse.items[i][1] = RequestedWeekKey
    THEN WeeksOfCourse.items[CHOOSE i \in 1..Len(WeeksOfCourse.items) :
                                WeeksOfCourse.items[i][1] = RequestedWeekKey][2]
    ELSE EmptyDict

WeekHasData == DataOfWeek # EmptyDict

NoWeekDataFound == <<"No week ", RequestedWeekKey, " data found">>

\* C15 as claimed: get_week_prompt never raises; for a course key and a week
\* that has data it returns that week's discussion_prompt, for a week without
\* data (or an unknown course key) the text 'No week N data found'.
C15_Original ==
    CalledGetWeekPrompt =>
        /\ pc = "returned" /\ raised = NoError
        /\ WeekHasData =>
             /\ "discussion_prompt" \in DOMAIN DataOfWeek
             /\ prompt = DataOfWeek.discussion_prompt
        /\ ~WeekHasData => prompt = NoWeekDataFound

\* C15 as amended: get_week_prompt never raises; for a course key and a week
\* that has data it returns that week's discussion_prompt, or 'No prompt
\* available' when the data holds none; for a week without data (or an
\* unknown course key) the text 'No week N data found'; and when 'weeks' is
\* no mapping, so that the lookup fails, a text '<Prompt not available: ...>'.
C15_PromptOrDefaultText ==
    CalledGetWeekPrompt =>
        /\ pc = "returned" /\ raised = NoError
        /\ (WeekHasData /\ "discussion_prompt" \in DOMAIN DataOfWeek) =>
             prompt = DataOfWeek.discussion_prompt
        /\ (WeekHasData /\ "discussion_prompt" \notin DOMAIN DataOfWeek) =>
             prompt = <<"No prompt available">>
        /\ (WeeksIsMapping /\ ~WeekHasData) => prompt = NoWeekDataFound
        /\ ~WeeksIsMapping =>
             /\ Len(prompt) = 3
             /\ prompt[1] = "<Prompt not available: "
             /\ prompt[3] = ">"

\* week 99 asked of a course that is not in the file
C15_Witness ==
    /\ CalledGetWeekPrompt
    /\ pc = "returned"
    /\ ~SelectorIsKey
    /\ CoursesOfConfig # << >>
    /\ week_id = 99
    /\ prompt = <<"No week ", <<"9", "9">>, " data found">>

\* lines 74 to 76 of run_discussion_action have been run
CalledTopicThenPrompt ==
    module = "discussions" /\ fn = "run_discussion_action" /\ CallFinished

\* the course resolve_course picks: the one under the key, else the first
\* whose course_id is the selector
CourseResolved ==
    IF SelectorIsKey
    THEN CoursesOfConfig[CHOOSE i \in 1..Len(CoursesOfConfig) :
                            CoursesOfConfig[i][1] = course_selector.str][2]
    ELSE CoursesOfConfig[CHOOSE i \in PositionsWithCourseId :
                            \A j \in PositionsWithCourseId : i <= j][2]

\* the data of the requested week in the course resolve_course picks
WeekOfCourseResolved ==
    LET q == CourseResolved.weeks.items
    IN  q[CHOOSE i \in 1..Len(q) : q[i][1] = int_str(week_id)][2]

\* C25: whenever resolve_course_and_topic returns a topic for a selector and
\* a week, get_week_prompt with the same selector, week and config returns
\* the discussion_prompt of that week of the course resolve_course picked
\* (when the week holds one).
C25_PromptOfResolvedCourse ==
    (CalledTopicThenPrompt /\ pc = "returned") =>
        /\ course_and_topic[2] = WeekOfCourseResolved.topic_id
        /\ "discussion_prompt" \in DOMAIN WeekOfCourseResolved
                => prompt = WeekOfCourseResolved.discussion_prompt

(***************************************************************************)
(* Properties of the provider functions.                                   *)
(***************************************************************************)
CalledDetector ==
    fn \in {"detect_provider", "_detect_llm_provider"} /\ CallFinished

ProviderOrder == <<"openai", "anthropic", "deepseek">>

KeysOfCall == <<openai_key, anthropic_key, deepseek_key>>

\* the i-th key of the call is a non-empty string
HasKey(i) == KeysOfCall[i] # None /\ KeysOfCall[i] # ""

\* what the detector of the other module does with the keys of the call
OtherDetector ==
    IF module = "llm_manager"
    THEN _detect_llm_provider(openai_key, anthropic_key, deepseek_key)
    ELSE detect_provider(openai_key, anthropic_key, deepseek_key)

\* C16: a detector returns the first provider, in the order openai,
\* anthropic, deepseek, whose API key is non-empty; when no key is non-empty
\* it raises ValueError 'No LLM API keys found ...'; the detector of
\* llm_manager and the one of discussions end the same way on the same keys.
C16_FirstProviderWithKey ==
    CalledDetector =>
        /\ (\A i \in 1..3 : ~HasKey(i)) =>
                /\ pc = "raised"
                /\ raised = ValueError
                /\ error_message = NoKeysFound
        /\ \A i \in 1..3 :
                (HasKey(i) /\ \A j \in 1..(i - 1) : ~HasKey(j)) =>
                    /\ pc = "returned"
                    /\ provider = ProviderOrder[i]
        /\ OtherDetector.exc = raised
        /\ OtherDetector.value = provider
        /\ OtherDetector.message = error_message

C16_Witness ==
    /\ CalledDetector
    /\ fn = "_detect_llm_provider"
    /\ openai_key = ""
    /\ anthropic_key = "sk-ant-test"
    /\ deepseek_key = "sk-test"
    /\ provider = "anthropic"

CalledCreateLLM == fn = "create_llm" /\ CallFinished

SupportedProviders == {"openai", "anthropic", "deepseek"}

ApiKeyIsEmpty == api_key = None \/ api_key = ""

\* the key the client was built with
KeyOfClient ==
    IF llm.class = "ChatAnthropic" THEN llm.anthropic_api_key
    ELSE llm.openai_api_key

\* C17: create_llm returns a client exactly for a provider among openai,
\* anthropic, deepseek with a non-empty API key, and the client holds that
\* key; for one of the three with an empty key it raises ValueError
\* '... API key is required ...'; for any other provider name it raises
\* ValueError 'Unsupported provider: ...' whatever the key.
C17_ClientOnlyForSupportedWithKey ==
    CalledCreateLLM =>
        /\ pc = "returned" <=>
                (provider \in SupportedProviders /\ ~ApiKeyIsEmpty)
        /\ pc = "returned" =>
                /\ llm.class \in {"ChatOpenAI", "ChatAnthropic"}
                /\ KeyOfClient = api_key
        /\ (provider \in SupportedProviders /\ ApiKeyIsEmpty) =>
                /\ raised = ValueError
                /\ Len(error_message) = 4
                /\ error_message[2] = " API key is required when using "
        /\ provider \notin SupportedProviders =>
                /\ raised = ValueError
                /\ error_message = <<"Unsupported provider: ", provider>>
        /\ pc = "raised" => llm = NoLLM

C17_Witness ==
    /\ CalledCreateLLM
    /\ provider = "deepseek"
    /\ api_key = ""
    /\ pc = "raised"
    /\ error_message = <<"DeepSeek", " API key is required when using ",
                         "DeepSeek", " provider">>

CalledSettings(name) ==
    module = "env_validator" /\ fn = name /\ CallFinished

\* the providers in their order, each with the field that holds its key
ProvidersAndFields ==
    << <<"openai", "OpenAI", "OPENAI_API_KEY">>,
       <<"anthropic", "Anthropic", "ANTHROPIC_API_KEY">>,
       <<"deepseek", "DeepSeek", "DEEPSEEK_API_KEY">> >>

KeyIsSet(entry) == settings[entry[3]] # None /\ settings[entry[3]] # ""

ProvidersWithKey == SelectSeq(ProvidersAndFields, KeyIsSet)

\* C18: get_available_providers returns exactly the providers whose key is
\* set and non-empty, in the order openai, anthropic, deepseek;
\* validate_llm_keys raises ValueError 'At least one LLM API key ...' exactly
\* when that list is empty.
C18_ProvidersWithKeyAndValidation ==
    /\ CalledSettings("get_available_providers") =>
        /\ pc = "returned"
        /\ Len(providers) = Len(ProvidersWithKey)
        /\ \A i \in 1..Len(providers) :
                providers[i] = <<ProvidersWithKey[i][1], ProvidersWithKey[i][2]>>
    /\ CalledSettings("validate_llm_keys") =>
        /\ pc = "raised" <=> get_available_providers(settings) = << >>
        /\ pc = "raised" <=> ProvidersWithKey = << >>
        /\ pc = "raised" =>
                raised = ValueError /\ error_message = KeyMustBeSet

C18_Witness ==
    /\ CalledSettings("validate_llm_keys")
    /\ settings.OPENAI_API_KEY = ""
    /\ settings.ANTHROPIC_API_KEY = None
    /\ settings.DEEPSEEK_API_KEY = ""
    /\ pc = "raised"

(***************************************************************************)
(* Properties of the schemas.                                              *)
(***************************************************************************)
CalledModel(name) == module = "schemas" /\ fn = name /\ CallFinished

Accepted == pc = "returned"

Rejected == pc = "raised" /\ raised = ValidationError

\* r has the key f with a non-empty string under it
HasText(r, f) == f \in DOMAIN r /\ "str" \in DOMAIN r[f] /\ r[f].str # << >>

\* r has the key f with an integer of 1..8 under it
HasWeekNumber(r, f) ==
    f \in DOMAIN r /\ "int" \in DOMAIN r[f] /\ r[f].int \in 1..8

\* s is written in decimal digits and its value is in 1..8: zeros, then one
\* of the digits 1 to 8
WritesWeekNumber(s) ==
    /\ s # << >>
    /\ \A i \in 1..(Len(s) - 1) : s[i] = "0"
    /\ s[Len(s)] \in {"1", "2", "3", "4", "5", "6", "7", "8"}

\* r has the key f with such a string under it
HasWrittenWeekNumber(r, f) ==
    f \in DOMAIN r /\ "str" \in DOMAIN r[f] /\ WritesWeekNumber(r[f].str)

\* what the claim asks of a record
AnnouncementAsClaimed(r) ==
    HasWeekNumber(r, "week") /\ HasText(r, "title") /\ HasText(r, "content")

\* what the schema asks of a record
AnnouncementAsValidated(r) ==
    /\ HasWeekNumber(r, "week") \/ HasWrittenWeekNumber(r, "week")
    /\ HasText(r, "title")
    /\ HasText(r, "content")

HasRecords(r) ==
    /\ "announcements" \in DOMAIN r
    /\ "list" \in DOMAIN r.announcements
    /\ Len(r.announcements.list) >= 1

\* C19 as claimed: a record is accepted exactly when its week is an integer
\* in 1..8 and its title and content are non-empty; a configuration is
\* accepted only when it holds at least one record and every record is
\* accepted; week 0 or 9 or an empty title is rejected.
C19_Original ==
    /\ CalledModel("AnnouncementSchema") =>
            (Accepted <=> AnnouncementAsClaimed(data))
    /\ (CalledModel("AnnouncementsConfig") /\ Accepted) =>
            /\ HasRecords(data)
            /\ \A i \in 1..Len(data.announcements.list) :
                    AnnouncementAsClaimed(data.announcements.list[i])

\* C19: a record is accepted exactly when its week is an integer in 1..8, or
\* a string of decimal digits whose value is in 1..8, and its title and
\* content are non-empty strings; the week of the accepted record is that
\* integer; a configuration is accepted exactly when it holds a list of at
\* least one record and every record is one that is accepted; what is not
\* accepted, week 0 or 9 or an empty title included, raises ValidationError.
C19_AnnouncementValidation ==
    /\ CalledModel("AnnouncementSchema") =>
            /\ Accepted <=> AnnouncementAsValidated(data)
            /\ Accepted => /\ instance.week \in 1..8
                           /\ HasWeekNumber(data, "week")
                                => instance.week = data.week.int
                           /\ instance.title = data.title
                           /\ instance.content = data.content
            /\ ~Accepted => Rejected
            /\ ("week" \in DOMAIN data /\ data.week \in {[int |-> 0], [int |-> 9]})
                    => Rejected
            /\ ("title" \in DOMAIN data /\ data.title = [str |-> << >>])
                    => Rejected
    /\ CalledModel("AnnouncementsConfig") =>
            /\ Accepted <=>
                    /\ HasRecords(data)
                    /\ \A i \in 1..Len(data.announcements.list) :
                            AnnouncementAsValidated(data.announcements.list[i])
            /\ Accepted =>
                    Len(instance.announcements.list)
                        = Len(data.announcements.list)
            /\ ~Accepted => Rejected

\* a week written "3" is accepted as the integer 3
C19_Witness ==
    /\ CalledModel("AnnouncementSchema")
    /\ Accepted
    /\ data.week = [str |-> <<"3">>]
    /\ instance.week = 3

LowerCasePlaceholders ==
    { <<"f", "i", "l", "l", "_", "m", "e">>, <<"t", "o", "d", "o">>,
      <<"t", "b", "d">> }

Digits == {"0", "1", "2", "3", "4", "5", "6", "7", "8", "9"}

\* r has the key f with a non-empty string of digits under it
HasDigits(r, f) == HasText(r, f) /\ \A i \in 1..Len(r[f].str) : r[f].str[i] \in Digits

\* r has the key f with a string under it that strptime takes as %Y-%m-%d
HasDate(r, f) ==
    /\ f \in DOMAIN r
    /\ "str" \in DOMAIN r[f]
    /\ strptime(r[f].str, "%Y-%m-%d").exc = NoError

\* what the claim asks of a week
WeekAsClaimed(w) ==
    /\ HasText(w, "topic_id")
    /\ HasText(w, "discussion_prompt")
    /\ lower(w.topic_id.str) \notin LowerCasePlaceholders

\* the examples of a week, when given, have a post and a response
ExamplesHaveText(w) ==
    "discussion_data" \in DOMAIN w =>
        /\ "list" \in DOMAIN w.discussion_data
        /\ \A i \in 1..Len(w.discussion_data.list) :
                /\ HasText(w.discussion_data.list[i], "post")
                /\ HasText(w.discussion_data.list[i], "response")

\* what the schema asks of a week
WeekAsValidated(w) == WeekAsClaimed(w) /\ ExamplesHaveText(w)

HasWeeks(c) == "weeks" \in DOMAIN c /\ "items" \in DOMAIN c.weeks

NameIsText(c) ==
    "name" \in DOMAIN c => (c.name = JsonNull \/ "str" \in DOMAIN c.name)

\* what the claim asks of a course
CourseAsClaimed(c) ==
    /\ HasDigits(c, "course_id")
    /\ HasDate(c, "course_start_date")
    /\ HasWeeks(c)
    /\ \A i \in 1..Len(c.weeks.items) : WeekAsClaimed(c.weeks.items[i][2])

\* what the schema asks of a course
CourseAsValidated(c) ==
    /\ HasDigits(c, "course_id")
    /\ HasDate(c, "course_start_date")
    /\ NameIsText(c)
    /\ HasWeeks(c)
    /\ \A i \in 1..Len(c.weeks.items) : WeekAsValidated(c.weeks.items[i][2])

HasCourses(r) ==
    /\ "courses" \in DOMAIN r
    /\ "items" \in DOMAIN r.courses
    /\ Len(r.courses.items) >= 1

\* C20 as claimed: a configuration is accepted exactly when it defines at
\* least one course and every course has a non-empty all-digit course_id, a
\* course_start_date that parses as YYYY-MM-DD, and weeks whose topic_id and
\* discussion_prompt are non-empty, the topic_id no placeholder in any
\* letter case.
C20_Original ==
    CalledModel("CoursesConfig") =>
        (Accepted <=>
            /\ HasCourses(data)
            /\ \A i \in 1..Len(data.courses.items) :
                    CourseAsClaimed(data.courses.items[i][2]))

\* C20: a configuration is accepted exactly when it defines at least one
\* course and every course has a course_id that is a non-empty string of
\* digits, a course_start_date that parses as YYYY-MM-DD, a name that is a
\* string or null when given, and weeks, each with a non-empty topic_id that
\* is no placeholder (FILL_ME, TODO, TBD in any letter case), a non-empty
\* discussion_prompt and, when discussion_data is given, a list of examples
\* with a non-empty post and response; the same holds of a course and of a
\* week validated alone; what is not accepted raises ValidationError.
C20_CourseValidation ==
    /\ CalledModel("WeekConfig") => (Accepted <=> WeekAsValidated(data))
    /\ CalledModel("CourseSchema") => (Accepted <=> CourseAsValidated(data))
    /\ CalledModel("CoursesConfig") =>
        (Accepted <=>
            /\ HasCourses(data)
            /\ \A i \in 1..Len(data.courses.items) :
                    CourseAsValidated(data.courses.items[i][2]))
    /\ (CalledModel("WeekConfig") \/ CalledModel("CourseSchema")
            \/ CalledModel("CoursesConfig")) => (~Accepted => Rejected)

\* a configuration of two courses, the second with an example without post,
\* is rejected
C20_Witness ==
    /\ CalledModel("CoursesConfig")
    /\ Rejected
    /\ HasCourses(data)
    /\ Len(data.courses.items) = 2
    /\ CourseAsValidated(data.courses.items[1][2])
    /\ CourseAsClaimed(data.courses.items[2][2])
    /\ ~CourseAsValidated(data.courses.items[2][2])

(***************************************************************************)
(* The week resolver and the date calculator taken together.               *)
(***************************************************************************)
\* the week the resolver gives when today is the announcement date of the
\* record just handled
WeekOfAnnouncementDate == WeekFor(start_date, announcement_date)

HandledWeekInRange == AfterIteration /\ week \in MIN_WEEK..MAX_WEEK

\* the start date is a Monday, Tuesday, Wednesday or Thursday
StartsMondayToThursday == WeekdayOfOrdinal(toordinal(start_date)) <= 3

\* C24 as claimed: for every start date and every week w in 1..8 the resolver
\* gives w when today is the announcement date of week w.
C24_Original == HandledWeekInRange => WeekOfAnnouncementDate = week

\* C24: for a start date on Monday to Thursday and every week w in 1..8 the
\* resolver gives w when today is the announcement date of week w, and the
\* week-1 date is the Monday of the week the start date is in; for a start
\* date on Friday to Sunday the announcement date is the Monday after that
\* week and the resolver gives w + 1, 8 for w = 8.
C24_AnnouncementDateInWeek ==
    HandledWeekInRange =>
        IF StartsMondayToThursday
        THEN /\ WeekOfAnnouncementDate = week
             /\ week = 1 => toordinal(announcement_date)
                                = MondayOnOrBefore(toordinal(start_date))
        ELSE /\ WeekOfAnnouncementDate = ClampTo1to8(week + 1)
             /\ week = 1 => toordinal(announcement_date)
                                = MondayOnOrBefore(toordinal(start_date)) + 7

\* week 1 of a course that starts on a Friday: announced in week 2
C24_Witness ==
    /\ HandledWeekInRange
    /\ week = 1
    /\ WeekdayOfOrdinal(toordinal(start_date)) = 4
    /\ WeekOfAnnouncementDate = 2

\* the Monday of today's week by the rule used for the start date
MondayByWeekdayOffset(c) == plus_days(c, -weekday(c)).value

\* the resolver without its Sunday branch
WeekWithoutSundayBranch(d, c) ==
    ClampTo1to8(
        timedelta_days(MondayByWeekdayOffset(c), MondayByWeekdayOffset(d))
            \div 7 + 1)

\* C26: for every start date and every today, calculate_current_week returns
\* the week a version without the Sunday branch returns, which takes today
\* minus today's weekday offset for the current Monday on all seven weekdays.
C26_SundayBranchChangesNothing ==
    ReturnedWeek =>
        current_week = WeekWithoutSundayBranch(start_date, current_date)

\* today is a Sunday in one of the weeks 2 to 7
C26_Witness ==
    /\ ReturnedWeek
    /\ module = "utils"
    /\ WeekdayOfOrdinal(toordinal(current_date)) = 6
    /\ current_week \in 2..7

(***************************************************************************)
(* The discussion loop.                                                    *)
(***************************************************************************)
\* process_discussion_authors has returned, the loop has not yet looked at
\* what it returned
ProcessReturned == pc = "alive"

InProcess == pc \in {"authors", "alive"}

\* the i-th author taken ended as o
EndedAs(i, o) == i \in 1..Len(handled) /\ handled[i][2] = o

\* C21: process_discussion_authors takes the authors in the order of the
\* list; it returns False exactly when an author raised the closed error,
\* and that author is the last one taken; after any other error the next
\* author is taken, and when no author raised the closed error every author
\* was taken and True is returned.
C21_AuthorsInOrderUntilClosed ==
    InProcess =>
        /\ Len(handled) <= Len(authors)
        /\ \A i \in 1..Len(handled) : handled[i][1] = authors[i]
        /\ \A i \in 1..Len(handled) :
             EndedAs(i, "closed") => i = Len(handled) /\ ProcessReturned
        /\ ProcessReturned =>
             /\ ~success <=> \E i \in 1..Len(handled) : EndedAs(i, "closed")
             /\ success => Len(handled) = Len(authors)

\* an author failed with another error, the next one raised the closed error
C21_Witness ==
    /\ ProcessReturned
    /\ ~success
    /\ EndedAs(1, "error")
    /\ EndedAs(2, "closed")

\* a call of run_discussion_loop has just ended: the first at line 112 of
\* discussions.py, the second at the end of the with block
LoopEnded ==
    \/ pc = "click"
    \/ pc = "exit_context" /\ Len(loop_ends) = 2

\* how that call ended
LastEnd == loop_ends[Len(loop_ends)]

InLoop == pc \in {"generator", "authors", "alive", "prompt"}

\* the pass that is running, or that ended the call, did not ask the user
NotAskedInThisPass == prompts = passes - 1

\* the prompts and the passes of a call: the user is asked at most once in
\* a pass, after process_discussion_authors has returned True; a call that
\* ended because the closure was detected did not ask in its last pass
AskedOnlyWhenOpen ==
    /\ InLoop => NotAskedInThisPass
    /\ pc = "prompt" => success
    /\ LoopEnded /\ LastEnd = "closed" => NotAskedInThisPass
    /\ LoopEnded /\ LastEnd = "stopped" => prompts = passes

\* C22 as the claim has it: the loop runs another pass exactly when the
\* answer is not 'y', so it stops on the answer 'y' alone.
C22_Original ==
    /\ AskedOnlyWhenOpen
    /\ LoopEnded /\ LastEnd = "stopped" => answer = <<"y">>
    /\ pc = "loop" /\ passes > 0 => answer # <<"y">>

\* C22: once the closure is detected in a pass the call returns in that pass
\* without asking the user and without another pass; otherwise the loop runs
\* another pass exactly when the answer, in lower case, is not 'y': it stops
\* on 'y' and on 'Y'.
C22_StopsOnLowerCaseY ==
    /\ AskedOnlyWhenOpen
    /\ LoopEnded /\ LastEnd = "stopped" => lower(answer) = <<"y">>
    /\ pc = "loop" /\ passes > 0 => lower(answer) # <<"y">>

\* the user answered 'Y' in the second pass and the call ended
C22_Witness ==
    /\ LoopEnded
    /\ LastEnd = "stopped"
    /\ passes = 2
    /\ answer = <<"Y">>

(***************************************************************************)
(* discussions.run_discussion_action: after the first loop.                *)
(***************************************************************************)
\* the click of line 112 was attempted
ClickAttempted == clicked # "no"

\* the second call of run_discussion_loop has begun
SecondLoopCalled == clicked = "done"

\* C27: the click of line 112 and the second call of run_discussion_loop
\* happen only when the first call ended because the user chose to stop;
\* after a first call that ended because the browser was closed the page is
\* not touched again.
C27_ClickOnlyAfterStop ==
    ClickAttempted \/ SecondLoopCalled => loop_ends[1] = "stopped"

(***************************************************************************)
(* discussions.run_discussion_action: the checks before the session.       *)
(***************************************************************************)
InDiscussions == module = "discussions"

\* Playwright was started: the session is being opened, is open or was open
SessionBegun == playwright # None

\* canvas.login was called
LoginCalled ==
    pc \notin {"idle", "load", "week", "topic", "keys", "with", "launch",
               "new_context", "new_page", "login", "returned", "raised"}

\* the data of the week of week_id in the course the selector resolves to
WeekOfAction ==
    week_data_of(get(resolve_course(course_selector, config).value,
                     "weeks", NoItems),
                 week_id.int)

\* every check of lines 47-94 holds of the arguments, the file and the keys
ChecksPassed ==
    /\ truthy(email)
    /\ truthy(password)
    /\ selector_given(course_selector)
    /\ resolve_course(course_selector, config).exc = NoError
    /\ "int" \in DOMAIN week_id
    /\ WeekOfAction.found
    /\ get(WeekOfAction.value, "topic_id", << >>) \notin {<< >>, FILL_ME}
    /\ provider \in {"openai", "anthropic", "deepseek"}
    /\ truthy(key_of(provider, openai_key, anthropic_key, deepseek_key))

\* the ValueError of lines 89-94
KeyCheckFailed ==
    /\ pc = "raised"
    /\ raised = ValueError
    /\ message \in { EnvKeyRequired(p) : p \in {"openai", "anthropic",
                                                 "deepseek"} }

\* C28: run_discussion_action starts the browser session and logs in only
\* when every check has passed (credentials and selector given, the course
\* resolved, the week given or calculated has data with a topic_id that is
\* neither empty nor FILL_ME, the provider has a non-empty key); a call
\* whose checks fail ends without a session; the key check fails only for
\* a provider the caller named, never for a detected one.
C28_SessionOnlyAfterChecks ==
    InDiscussions =>
        /\ SessionBegun \/ LoginCalled => ChecksPassed
        /\ KeyCheckFailed => available_providers = << >> /\ ~SessionBegun

\* logged in with a calculated week and a detected provider
C28_Witness ==
    /\ InDiscussions
    /\ pc = "navigate"
    /\ current_date # NoDate
    /\ available_providers # << >>
    /\ ChecksPassed

(***************************************************************************)
(* CanvasService.schedule_announcements.                                   *)
(***************************************************************************)
InAnnouncements == module = "announcements"

\* canvas.schedule_announcements was called and has ended: it returned the
\* counts, or an exception left it
ScheduleEnded ==
    /\ InAnnouncements
    /\ attempted # << >>
    /\ pc \in {"exit_context", "exit_browser", "exit_playwright", "returned",
               "raised"}

\* the announcements taken whose create_announcement ended as how
RECURSIVE count_ended(_, _)
count_ended(log, how) ==
    IF log = << >> THEN 0
    ELSE (IF Head(log)[2] = how THEN 1 ELSE 0) + count_ended(Tail(log), how)

\* C29: schedule_announcements takes every announcement once, in the order
\* of the list, whatever happened to the ones before; the counts add up to
\* the length of the list; with the dates of calculate_announcement_dates of
\* the same list no announcement is without a date, and failed counts the
\* calls of create_announcement that returned False.
C29_EveryAnnouncementAttempted ==
    /\ InAnnouncements =>
         /\ Len(attempted) <= Len(announcements)
         /\ \A i \in 1..Len(attempted) : attempted[i][1] = announcements[i]
         /\ count_ended(attempted, "no date") = 0
         /\ failed_announcements = count_ended(attempted, "failed")
    /\ ScheduleEnded =>
         /\ Len(attempted) = Len(announcements)
         /\ successful_announcements + failed_announcements
              = Len(announcements)

(***************************************************************************)
(* The session.                                                            *)
(***************************************************************************)
WorkflowEnded == pc \in {"returned", "raised"}

\* C30: a session whose Playwright was started is released on every way
\* out: when the workflow has ended, the context, the browser and Playwright
\* were closed in that order and Playwright is stopped.
C30_SessionReleased ==
    WorkflowEnded /\ SessionBegun =>
        /\ released = <<"context", "browser", "playwright">>
        /\ playwright = "stopped"

(***************************************************************************)
(* main.py: the flag.                                                      *)
(***************************************************************************)
\* the browser of the action was launched
BrowserLaunched == browser # None

\* the window of the action's browser was closed, by the user or by __exit__
WindowClosed == window = "closed"

\* the action raised an exception and main.py has handled it
ErrorHandled == pc = "handled"

\* C23: under every interleaving of the monitor thread with the action the
\* flag is set only when the window of the action's browser was closed or a
\* signal was received, never before the browser was launched; an error
\* raised by the action while its browser was never closed is reported.
C23_FlagOnlyAfterClose ==
    /\ browser_closed => WindowClosed \/ signalled
    /\ browser_closed /\ ~signalled => BrowserLaunched
    /\ ErrorHandled /\ ~WindowClosed /\ ~signalled => reported

====
